---- MODULE Spec2Model ----
(***************************************************************************)
(* Session registry and subscription engine of the OPC UA client adapter:  *)
(*   src/src/session/edge_opcua_client.c  (connect_client,                 *)
(*       disconnect_client, getSessionClient, executeSubscriptionInServer) *)
(*   src/src/command/subscription.c       (createSub, deleteSub,           *)
(*       modifySub, rePublish, subscription_thread_handler,                *)
(*       stopSubscriptionThread, monitoredItemHandler, serializeMutex)     *)
(*   src/src/api/opcua_manager.c          (configure, onResponseMessage)   *)
(*   src/src/command/browse/browse_common.c (browseNodes, browse)          *)
(*   src/src/command/read.c               (readGroup, executeRead)         *)
(*   src/src/session/discovery/edge_discovery_common.c                     *)
(*       (isIPv4AddressValid, isServerAppDescriptionValid)                 *)
(*                                                                         *)
(* Calls into the underlying OPC UA client library are external: their     *)
(* results are chosen nondeterministically and every call is logged in the *)
(* event record `last` of the step that issued it.                         *)
(***************************************************************************)
EXTENDS Integers, Sequences, FiniteSets, TLC

(* ------------------------------ bounds --------------------------------- *)
\* client handles UA_Client_new can return (addresses; a freed one may be reused)
NumClients == 3
\* requests in one Edge_Create_Sub batch
MaxBatch == 3
\* messages waiting in the receive queue
MaxQueue == 1
\* |subscriptionCount| (the code lets it drift without limit in both directions)
MaxCount == 2
\* messages the receive queue holds where its consumer is modelled
MaxPending == 2
\* the numbers of starting nodes of a browse request, and the numbers of
\* references of one browse result
StartSizes == {1, 2, 3}
ReferencesSizes == {0, 1}

(* ----------------------------- universes ------------------------------- *)
Clients == 1..NumClients
\* caller threads of the facade
Callers == {1}
\* publish-pump threads that can exist at the same time
PumpIds == {1}
\* subscription ids and monitored item ids the server hands out (0 is "no id")
SubIds == {1, 2}
MonIds == {1, 2}
Hosts == {"h1", "h2"}
Ports == {4840, 4841}
Paths == {"", "/p"}
Aliases == {"a", "b"}
MsgIds == {7}

\* endpoint URIs opc.tcp://<host>:<port><path>, already split by the URL parser
Endpoints == [host : Hosts, port : Ports, path : Paths]
\* Edge_Create_Sub batches: the valueAlias of every request, in order
Batches == UNION {[1..n -> Aliases] : n \in 1..MaxBatch}

NULL == 0

VARIABLES
    sessionClientMap,   \* edge_opcua_client.c:47  [null, head], head a sequence of [key, value]
    clientCount,        \* edge_opcua_client.c:48
    clientSubMap,       \* subscription.c:78  client handle -> clientSubscription
    pump,               \* the pthreads running subscription_thread_handler
    serializeMutex,     \* subscription.c:80  the set of threads that hold the mutex
    caller,             \* position of every caller thread inside a blocking operation
    recvQ,              \* receive queue of the message dispatcher
    receivedMsgCb,      \* opcua_manager.c:32  the receive callbacks configured, or NULL
    browseMsg,          \* the EdgeMessage browseNodes is working on
    browseFrames,       \* the activations of browse(), the outermost first
    browsePathList,     \* browse_common.c:1290  browsePathListHead .. browsePathListTail
    last                \* the step just taken: operation, result, callbacks fired, library calls

\* the state of the browse engine
browseVars == <<browseMsg, browseFrames, browsePathList>>

vars == <<sessionClientMap, clientCount, clientSubMap, pump, serializeMutex, caller, recvQ,
          receivedMsgCb, browseVars, last>>

(* ------------------------------ events --------------------------------- *)
\* op: the operation; t: the thread; ep: the endpoint a registry operation was
\* called with; client: the client handle it resolved; batch: the batch of an
\* Edge_Create_Sub; ret: what it returned; eff: what it did to its list; cb:
\* status callbacks fired; calls: client library calls issued
Ev(op, t, ep, client, batch, ret, eff, cb, calls) ==
    [op |-> op, t |-> t, ep |-> ep, client |-> client, batch |-> batch,
     ret |-> ret, eff |-> eff, cb |-> cb, calls |-> calls]

NoEp == [host |-> "-", port |-> 0, path |-> "-"]

\* two requests of the batch, at any two positions, name the same valueAlias
RepeatedAlias(reqs) ==
    \E i, j \in 1..Len(reqs) : i < j /\ reqs[i] = reqs[j]

\* some valueAlias of the batch has a record in the list of the client
AliasListed(client, reqs) ==
    \E i \in 1..Len(reqs), k \in 1..Len(clientSubMap[client].subscriptionList) :
        clientSubMap[client].subscriptionList[k].key = reqs[i]

\* what an event records of an Edge_Create_Sub batch: its length and the two
\* facts about its valueAliases
Batch(client, reqs) ==
    [n |-> Len(reqs), repeats |-> RepeatedAlias(reqs),
     listed |-> client # NULL /\ AliasListed(client, reqs)]

NoBatch == [n |-> 0, repeats |-> FALSE, listed |-> FALSE]

Call(fn, subId) == [fn |-> fn, subId |-> subId]

\* a library call together with the status code it answered
Answer(fn, statusCode) == [fn |-> fn, subId |-> 0, statusCode |-> statusCode]

(* ------------------------- ordered map (edge_map) ---------------------- *)
createMap == [null |-> FALSE, head |-> <<>>]

insertMapElement(map, key, value) ==
    [map EXCEPT !.head = Append(@, [key |-> key, value |-> value])]

NullMap == [null |-> TRUE, head |-> <<>>]

\* the list m without its element at position i
RemoveAt(m, i) == SubSeq(m, 1, i - 1) \o SubSeq(m, i + 1, Len(m))

\* position of the first node of m whose key is k, 0 when there is none
FirstIndex(m, k) ==
    IF \E i \in 1..Len(m) : m[i].key = k
    THEN CHOOSE i \in 1..Len(m) : m[i].key = k /\ \A j \in 1..(i - 1) : m[j].key # k
    ELSE 0

(* --------------------------- session registry -------------------------- *)
\* a key that keeps the path of the URL
getAddressPort_withPath(endpoint) == endpoint

\* snprintf(addr_port, ..., "%s:%d", address, port): the path is left out
getAddressPort(endpoint) == [host |-> endpoint.host, port |-> endpoint.port]

getSessionClient_headOnly(endpoint) ==
    IF sessionClientMap.null \/ sessionClientMap.head = <<>> THEN NULL
    ELSE IF sessionClientMap.head[1].key = getAddressPort(endpoint)
         THEN sessionClientMap.head[1].value ELSE NULL

getSessionClient(endpoint) ==
    IF sessionClientMap.null THEN NULL
    ELSE LET i == FirstIndex(sessionClientMap.head, getAddressPort(endpoint))
         IN  IF i = 0 THEN NULL ELSE sessionClientMap.head[i].value

\* the node unlinked by removeClientFromSessionMap, as an index (0: none)
removeClientFromSessionMap(endpoint) ==
    IF sessionClientMap.null THEN 0
    ELSE FirstIndex(sessionClientMap.head, getAddressPort(endpoint))

\* client handles that are connected, i.e. not yet passed to UA_Client_delete
LiveClients ==
    {sessionClientMap.head[i].value : i \in 1..Len(sessionClientMap.head)}

Idle(t) == caller[t].pc = "idle"

\* the handles UA_Client_new can return: any address of the heap not in use
UA_Client_new(heap) == heap \ LiveClients

StatusOnConnect_always(retVal) == <<"STATUS_CLIENT_STARTED">>

\* the status callbacks connect_client fires: none on the early return of a
\* failed connect, STATUS_CLIENT_STARTED once after the insertion
StatusOnConnect(retVal) ==
    IF retVal # "GOOD" THEN <<>> ELSE <<"STATUS_CLIENT_STARTED">>

\* connect_client counting the client before UA_Client_connect has answered
connect_client_countFirst(t, endpoint, heap) ==
    /\ UNCHANGED <<receivedMsgCb, browseVars>>
    /\ Idle(t)
    /\ IF getSessionClient(endpoint) # NULL
       THEN /\ last' = Ev("connect_client", t, endpoint, getSessionClient(endpoint),
                          NoBatch, "false", "none", <<>>, <<>>)
            /\ UNCHANGED <<sessionClientMap, clientCount>>
       ELSE IF UA_Client_new(heap) = {}
       THEN \* no memory for a client: UA_Client_new returns NULL
            /\ last' = Ev("connect_client", t, endpoint, NULL,
                          NoBatch, "false", "none", <<>>, <<>>)
            /\ UNCHANGED <<sessionClientMap, clientCount>>
       ELSE \E m_client \in UA_Client_new(heap), retVal \in {"GOOD", "BAD"} :
              IF retVal # "GOOD"
              THEN /\ last' = Ev("connect_client", t, endpoint, m_client,
                                 NoBatch, "false", "none",
                                 StatusOnConnect(retVal),
                                 <<Answer("UA_Client_connect", retVal), Call("UA_Client_delete", 0)>>)
                   /\ clientCount' = clientCount + 1
                   /\ UNCHANGED sessionClientMap
              ELSE /\ sessionClientMap' =
                         insertMapElement(IF sessionClientMap.null THEN createMap
                                          ELSE sessionClientMap,
                                          getAddressPort(endpoint), m_client)
                   /\ clientCount' = clientCount + 1
                   /\ last' = Ev("connect_client", t, endpoint, m_client,
                                 NoBatch, "true", "inserted",
                                 StatusOnConnect(retVal), <<Answer("UA_Client_connect", retVal)>>)
    /\ UNCHANGED <<clientSubMap, pump, serializeMutex, caller, recvQ>>

\* the allocations of m_endpoint (l.191) and of the EdgeEndPointInfo handed to
\* the status callback (l.235) are taken to succeed, and a status callback to
\* be registered
connect_client(t, endpoint, heap) ==
    /\ UNCHANGED <<receivedMsgCb, browseVars>>
    /\ Idle(t)
    /\ IF getSessionClient(endpoint) # NULL
       THEN /\ last' = Ev("connect_client", t, endpoint, getSessionClient(endpoint),
                          NoBatch, "false", "none", <<>>, <<>>)
            /\ UNCHANGED <<sessionClientMap, clientCount>>
       ELSE IF UA_Client_new(heap) = {}
       THEN \* no memory for a client: UA_Client_new returns NULL
            /\ last' = Ev("connect_client", t, endpoint, NULL,
                          NoBatch, "false", "none", <<>>, <<>>)
            /\ UNCHANGED <<sessionClientMap, clientCount>>
       ELSE \E m_client \in UA_Client_new(heap), retVal \in {"GOOD", "BAD"} :
              IF retVal # "GOOD"
              THEN /\ last' = Ev("connect_client", t, endpoint, m_client,
                                 NoBatch, "false", "none",
                                 StatusOnConnect(retVal),
                                 <<Answer("UA_Client_connect", retVal), Call("UA_Client_delete", 0)>>)
                   /\ UNCHANGED <<sessionClientMap, clientCount>>
              ELSE /\ sessionClientMap' =
                         insertMapElement(IF sessionClientMap.null THEN createMap
                                          ELSE sessionClientMap,
                                          getAddressPort(endpoint), m_client)
                   /\ clientCount' = clientCount + 1
                   /\ last' = Ev("connect_client", t, endpoint, m_client,
                                 NoBatch, "true", "inserted",
                                 StatusOnConnect(retVal), <<Answer("UA_Client_connect", retVal)>>)
    /\ UNCHANGED <<clientSubMap, pump, serializeMutex, caller, recvQ>>

\* UA_Client_delete(c): every pump thread still bound to c now runs on freed memory
ClientDeleted(c) ==
    [p \in DOMAIN pump |-> IF pump[p].pc # "none" /\ pump[p].client = c
                       THEN [pump[p] EXCEPT !.freed = TRUE] ELSE pump[p]]

delete_queue == <<>>

StatusOnDisconnect_always(session) == <<"STATUS_STOP_CLIENT">>

\* the status callbacks disconnect_client fires: inside "if (session)" only
StatusOnDisconnect(session) ==
    IF session # 0 THEN <<"STATUS_STOP_CLIENT">> ELSE <<>>

\* "if (0 == clientCount)": the session just removed was the last one
LastOut_always(count) == TRUE

LastOut(count) == count = 0

disconnect_client(t, endpoint) ==
    /\ UNCHANGED <<receivedMsgCb, browseVars>>
    /\ Idle(t)
    /\ LET session == removeClientFromSessionMap(endpoint) IN
       IF session = 0
       THEN /\ last' = Ev("disconnect_client", t, endpoint, NULL,
                          NoBatch, "void", "none", StatusOnDisconnect(session), <<>>)
            /\ UNCHANGED <<sessionClientMap, clientCount, pump, recvQ>>
       ELSE LET m_client == sessionClientMap.head[session].value IN
            /\ pump' = ClientDeleted(m_client)
            /\ clientCount' = clientCount - 1
            /\ last' = Ev("disconnect_client", t, endpoint, m_client,
                          NoBatch, "void", "removed",
                          StatusOnDisconnect(session), <<Call("UA_Client_delete", 0)>>)
            /\ IF LastOut(clientCount - 1)
               THEN /\ sessionClientMap' = NullMap
                    /\ recvQ' = delete_queue
               ELSE /\ sessionClientMap' =
                          [sessionClientMap EXCEPT !.head = RemoveAt(@, session)]
                    /\ UNCHANGED recvQ
    /\ UNCHANGED <<clientSubMap, serializeMutex, caller>>


(* --------------------------- subscription lists ------------------------ *)
\* a subscriptionInfo keyed by its valueAlias; msgId is msg->message_id of the
\* registered copy, hfContext is (client, key)
SubInfo(alias, subId, monId, msgId) ==
    [key |-> alias, subId |-> subId, monId |-> monId, msgId |-> msgId]

validateMonitoringId(list, subId, monId) ==
    ~ \E i \in 1..Len(list) : list[i].subId = subId /\ list[i].monId = monId

hasSubscriptionId(list, subId) ==
    \E i \in 1..Len(list) : list[i].subId = subId

get_subscription_list(client) == clientSubMap[client]

\* index of the record (0: NULL)
getSubInfo(list, valueAlias) == FirstIndex(list, valueAlias)

removeSubFromMap(list, valueAlias) ==
    IF FirstIndex(list, valueAlias) = 0 THEN list
    ELSE RemoveAt(list, FirstIndex(list, valueAlias))

\* the two nested loops of createSub over the batch (0-based i < n, j < n-1)
DuplicateRequest_shortLoops(reqs) ==
    \E i \in 1..(Len(reqs) - 1), j \in 1..(Len(reqs) - 1) : i # j /\ reqs[i] = reqs[j]

DuplicateRequest(reqs) ==
    \E i \in 1..Len(reqs), j \in 1..(Len(reqs) - 1) : i # j /\ reqs[i] = reqs[j]

AlreadySubscribed(clientSub, reqs) ==
    /\ clientSub.valid
    /\ \E i \in 1..Len(reqs) : getSubInfo(clientSub.subscriptionList, reqs[i]) # 0

\* what UA_Client_MonitoredItems_createDataChange answers for one item
ItemResponses ==
    {[statusCode |-> "BAD", monitoredItemId |-> 0]} \cup
    [statusCode : {"GOOD"}, monitoredItemId : MonIds]

\* monId[i] of the first loop of createSub: the id of a good response, else 0
MonId(response) ==
    IF response.statusCode = "GOOD" THEN response.monitoredItemId ELSE 0

\* the second loop of createSub: the call stops at an item without monitored
\* item id; an item whose (subId, monId) is already listed is skipped; the call
\* stops at an item whose status is not good; any other item is appended.
\* haveSub is "clientSub != NULL" at that point
RECURSIVE InsertItems(_, _, _, _, _, _, _)
InsertItems(list, haveSub, subId, reqs, items, msgId, i) ==
    IF i > Len(reqs) THEN [list |-> list, ret |-> "GOOD"]
    ELSE IF MonId(items[i]) = 0 THEN [list |-> list, ret |-> "BADMONITOREDITEMIDINVALID"]
    ELSE IF haveSub /\ ~validateMonitoringId(list, subId, MonId(items[i]))
         THEN InsertItems(list, haveSub, subId, reqs, items, msgId, i + 1)
    ELSE IF items[i].statusCode # "GOOD" THEN [list |-> list, ret |-> "BAD"]
         ELSE InsertItems(Append(list, SubInfo(reqs[i], subId, MonId(items[i]), msgId)),
                          TRUE, subId, reqs, items, msgId, i + 1)

CreateCalls(subId, n) ==
    <<Call("Subscriptions_create", subId)>> \o
    [i \in 1..n |-> Call("MonitoredItems_createDataChange", subId)]

FreePumps == {p \in DOMAIN pump : pump[p].pc = "none"}

\* executeSub with subType Edge_Create_Sub
createSub(t, endpoint, reqs, msgId) ==
    /\ UNCHANGED <<receivedMsgCb, browseVars>>
    /\ Idle(t)
    /\ UNCHANGED <<sessionClientMap, clientCount, serializeMutex, caller, recvQ>>
    /\ LET client == getSessionClient(endpoint) IN
       IF client = NULL
       THEN /\ last' = Ev("createSub", t, NoEp, NULL, Batch(NULL, reqs), "NOCLIENT", "none", <<>>, <<>>)
            /\ UNCHANGED <<clientSubMap, pump>>
       ELSE LET clientSub == get_subscription_list(client) IN
       IF DuplicateRequest(reqs) \/ AlreadySubscribed(clientSub, reqs)
       THEN /\ last' = Ev("createSub", t, NoEp, client, Batch(client, reqs), "BADREQUESTCANCELLEDBYCLIENT", "none", <<>>, <<>>)
            /\ UNCHANGED <<clientSubMap, pump>>
       ELSE \/ /\ last' = Ev("createSub", t, NoEp, client, Batch(client, reqs), "BAD", "none",
                               <<>>, <<Call("Subscriptions_create", 0)>>)
               /\ UNCHANGED <<clientSubMap, pump>>
            \/ \E subId \in SubIds :
                 IF clientSub.valid /\ hasSubscriptionId(clientSub.subscriptionList, subId)
                 THEN /\ last' = Ev("createSub", t, NoEp, client, Batch(client, reqs), "BADSUBSCRIPTIONIDINVALID", "none",
                                    <<>>, <<Call("Subscriptions_create", subId)>>)
                      /\ UNCHANGED <<clientSubMap, pump>>
                 ELSE \E items \in [1..Len(reqs) -> ItemResponses] :
                      LET r == InsertItems(clientSub.subscriptionList, clientSub.valid,
                                           subId, reqs, items, msgId, 1) IN
                      IF r.ret # "GOOD"
                      THEN \* returns from inside the loop: a clientSub allocated by this
                           \* call is never put into clientSubMap
                           /\ clientSubMap' = IF clientSub.valid
                                              THEN [clientSubMap EXCEPT ![client].subscriptionList = r.list]
                                              ELSE clientSubMap
                           /\ last' = Ev("createSub", t, NoEp, client, Batch(client, reqs), r.ret,
                                         IF clientSub.valid /\ r.list # clientSub.subscriptionList
                                         THEN "inserted" ELSE "none",
                                         <<>>, CreateCalls(subId, Len(reqs)))
                           /\ UNCHANGED pump
                      ELSE \* EdgeMalloc does not initialise subscription_thread_running
                           \E garbage \in (IF clientSub.valid THEN {clientSub.subscription_thread_running}
                                           ELSE BOOLEAN) :
                           LET cs == [valid |-> TRUE,
                                      subscriptionCount |-> clientSub.subscriptionCount,
                                      subscription_thread |-> clientSub.subscription_thread,
                                      subscription_thread_running |-> garbage,
                                      subscriptionList |-> r.list]
                           IN
                           /\ last' = Ev("createSub", t, NoEp, client, Batch(client, reqs), "GOOD", "inserted",
                                         <<>>, CreateCalls(subId, Len(reqs)))
                           /\ cs.subscriptionCount < MaxCount
                           /\ IF cs.subscriptionCount = 0
                              THEN \E p \in FreePumps :
                                     /\ pump' = [pump EXCEPT ![p] =
                                                   [pc |-> "start", client |-> client, freed |-> FALSE]]
                                     /\ clientSubMap' = [clientSubMap EXCEPT ![client] =
                                            [cs EXCEPT !.subscription_thread = p,
                                                       !.subscriptionCount = @ + 1]]
                              ELSE /\ clientSubMap' = [clientSubMap EXCEPT ![client] =
                                            [cs EXCEPT !.subscriptionCount = @ + 1]]
                                   /\ UNCHANGED pump

\* executeSub with subType Edge_Delete_Sub.  subInfo is freed together with the
\* record, so the subInfo->subId read afterwards is any value: stale
deleteSub(t, endpoint, valueAlias) ==
    /\ UNCHANGED <<receivedMsgCb, browseVars>>
    /\ Idle(t)
    /\ UNCHANGED <<sessionClientMap, clientCount, serializeMutex, recvQ>>
    /\ LET client == getSessionClient(endpoint) IN
       IF client = NULL
       THEN /\ last' = Ev("deleteSub", t, NoEp, NULL, NoBatch, "NOCLIENT", "none", <<>>, <<>>)
            /\ UNCHANGED <<clientSubMap, pump, caller>>
       ELSE LET clientSub == get_subscription_list(client)
                idx == getSubInfo(clientSub.subscriptionList, valueAlias) IN
       IF ~clientSub.valid \/ idx = 0
       THEN /\ last' = Ev("deleteSub", t, NoEp, client, NoBatch, "BADNOSUBSCRIPTION", "none", <<>>, <<>>)
            /\ UNCHANGED <<clientSubMap, pump, caller>>
       ELSE LET subInfo == clientSub.subscriptionList[idx]
                first == <<Call("MonitoredItems_deleteSingle", subInfo.subId),
                           Call("Subscriptions_deleteSingle", subInfo.subId)>>
                list == removeSubFromMap(clientSub.subscriptionList, valueAlias) IN
            \/ /\ last' = Ev("deleteSub", t, NoEp, client, NoBatch, "BAD", "none", <<>>, first)
               /\ UNCHANGED <<clientSubMap, pump, caller>>
            \/ \E stale \in {0} \cup SubIds :
                 IF hasSubscriptionId(list, stale)
                 THEN /\ clientSubMap' = [clientSubMap EXCEPT ![client].subscriptionList = list]
                      /\ last' = Ev("deleteSub", t, NoEp, client, NoBatch, "GOOD", "removed", <<>>, first)
                      /\ UNCHANGED <<pump, caller>>
                 ELSE LET calls == Append(first, Call("Subscriptions_deleteSingle", stale)) IN
                 \E retVal \in {"GOOD", "BAD"} :
                 IF retVal # "GOOD"
                 THEN /\ clientSubMap' = [clientSubMap EXCEPT ![client].subscriptionList = list]
                      /\ last' = Ev("deleteSub", t, NoEp, client, NoBatch, "BAD", "removed", <<>>, calls)
                      /\ UNCHANGED <<pump, caller>>
                 ELSE IF clientSub.subscriptionCount - 1 # 0
                 THEN /\ clientSub.subscriptionCount > -MaxCount
                      /\ clientSubMap' = [clientSubMap EXCEPT
                             ![client].subscriptionList = list,
                             ![client].subscriptionCount = @ - 1]
                      /\ last' = Ev("deleteSub", t, NoEp, client, NoBatch, "GOOD", "removed", <<>>, calls)
                      /\ UNCHANGED <<pump, caller>>
                 ELSE \* the caller sits in pthread_join until the pump thread ends
                      /\ clientSubMap' = [clientSubMap EXCEPT
                             ![client].subscriptionList = list,
                             ![client].subscriptionCount = 0,
                             ![client].subscription_thread_running = FALSE]
                      /\ caller' = [caller EXCEPT ![t] =
                             [pc |-> "deleteSub_join", client |-> client,
                              thread |-> clientSub.subscription_thread]]
                      /\ last' = Ev("deleteSub_join", t, NoEp, client, NoBatch, "-", "removed", <<>>, calls)
                      /\ UNCHANGED pump

\* pthread_join(th) returns once thread th has ended, and releases it
pthread_join(th) ==
    /\ pump[th].pc = "done"
    /\ pump' = [pump EXCEPT ![th] = [pc |-> "none", client |-> NULL, freed |-> FALSE]]

deleteSub_joined(t) ==
    /\ UNCHANGED <<receivedMsgCb, browseVars>>
    /\ caller[t].pc = "deleteSub_join"
    /\ pthread_join(caller[t].thread)
    /\ caller' = [caller EXCEPT ![t] = [pc |-> "idle", client |-> NULL, thread |-> 0]]
    /\ last' = Ev("deleteSub", t, NoEp, caller[t].client, NoBatch, "GOOD", "joined", <<>>, <<>>)
    /\ UNCHANGED <<sessionClientMap, clientCount, clientSubMap, serializeMutex, recvQ>>

ModifyCalls(subId) ==
    <<Call("Subscriptions_modify", subId), Call("ModifyMonitoredItems", subId),
      Call("SetMonitoringMode", subId), Call("SetPublishingMode", subId)>>

\* the answer of the server to one service call: the service result of the
\* response header and the status codes of its results
ServiceAnswer(serviceResult, results) ==
    [serviceResult |-> serviceResult, results |-> results]

\* the first status of a sequence that is not GOOD, or GOOD
RECURSIVE FirstBad(_)
FirstBad(results) ==
    IF results = <<>> THEN "GOOD"
    ELSE IF Head(results) # "GOOD" THEN Head(results)
    ELSE FirstBad(Tail(results))

\* modifySub after the record was found: the number of service calls made
\* and the status returned, for the answers the server gives to the calls
modifySub_outcome(answers) ==
    IF answers[1].serviceResult # "GOOD" THEN <<1, answers[1].serviceResult>>
    ELSE IF answers[2].serviceResult # "GOOD" THEN <<2, answers[2].serviceResult>>
    ELSE IF FirstBad(answers[2].results) # "GOOD" THEN <<2, FirstBad(answers[2].results)>>
    ELSE IF answers[3].serviceResult # "GOOD" THEN <<3, answers[3].serviceResult>>
    ELSE IF Len(answers[3].results) # 1 THEN <<3, "BADUNEXPECTEDERROR">>
    ELSE IF answers[3].results[1] # "GOOD" THEN <<3, answers[3].results[1]>>
    ELSE IF answers[4].serviceResult # "GOOD" THEN <<4, answers[4].serviceResult>>
    ELSE IF FirstBad(answers[4].results) # "GOOD" THEN <<4, "BADMONITOREDITEMIDINVALID">>
    ELSE <<4, "GOOD">>

\* a service call of modifySub as an event records it: the call, the
\* monitoring mode it asks for, and the answer
ModifyCall(call, answer) ==
    [fn |-> call.fn, subId |-> call.subId,
     monitoringMode |-> IF call.fn = "SetMonitoringMode" THEN "UA_MONITORINGMODE_REPORTING"
                        ELSE "-",
     serviceResult |-> answer.serviceResult, results |-> answer.results]

\* executeSub with subType Edge_Modify_Sub: up to four service calls for the
\* record of the valueAlias, answered by answers; the allocations succeed,
\* and ModifyMonitoredItems is answered with a result when it is GOOD
modifySubWith(t, endpoint, valueAlias, answers) ==
    /\ UNCHANGED <<receivedMsgCb, browseVars>>
    /\ Idle(t)
    /\ UNCHANGED <<sessionClientMap, clientCount, clientSubMap, pump, serializeMutex, caller, recvQ>>
    /\ LET client == getSessionClient(endpoint) IN
       IF client = NULL
       THEN last' = Ev("modifySub", t, NoEp, NULL, NoBatch, "NOCLIENT", "none", <<>>, <<>>)
       ELSE LET clientSub == get_subscription_list(client)
                idx == getSubInfo(clientSub.subscriptionList, valueAlias) IN
       IF ~clientSub.valid \/ idx = 0
       THEN last' = Ev("modifySub", t, NoEp, client, Batch(client, <<valueAlias>>),
                       "BADNOSUBSCRIPTION", "none", <<>>, <<>>)
       ELSE LET out == modifySub_outcome(answers)
                calls == ModifyCalls(clientSub.subscriptionList[idx].subId) IN
            last' = Ev("modifySub", t, NoEp, client, Batch(client, <<valueAlias>>), out[2],
                       "none", <<>>,
                       [k \in 1..out[1] |-> ModifyCall(calls[k], answers[k])])

\* the answers of a server whose first failure is the service result of
\* call failAt (no failure for 0)
FailAt(failAt) ==
    [k \in 1..4 |-> IF k = failAt THEN ServiceAnswer("BAD", <<>>)
                    ELSE ServiceAnswer("GOOD", <<"GOOD">>)]

modifySub(t, endpoint, valueAlias) ==
    \E failAt \in 0..4 : modifySubWith(t, endpoint, valueAlias, FailAt(failAt))

\* the retransmit sequence number of every republish request
DEFAULT_RETRANSMIT_SEQUENCENUM == 2

\* rePublish returning every service result that is not GOOD
rePublishWith_strict(t, endpoint, valueAlias, serviceResult) ==
    /\ UNCHANGED <<receivedMsgCb, browseVars>>
    /\ Idle(t)
    /\ UNCHANGED <<sessionClientMap, clientCount, clientSubMap, pump, serializeMutex, caller, recvQ>>
    /\ LET client == getSessionClient(endpoint) IN
       IF client = NULL
       THEN last' = Ev("rePublish", t, NoEp, NULL, NoBatch, "NOCLIENT", "none", <<>>, <<>>)
       ELSE LET clientSub == get_subscription_list(client)
                idx == getSubInfo(clientSub.subscriptionList, valueAlias) IN
       IF ~clientSub.valid \/ idx = 0
       THEN last' = Ev("rePublish", t, NoEp, client, Batch(client, <<valueAlias>>),
                       "BADNOSUBSCRIPTION", "none", <<>>, <<>>)
       ELSE last' = Ev("rePublish", t, NoEp, client, Batch(client, <<valueAlias>>),
                       serviceResult,
                       "none", <<>>,
                       <<[fn |-> "Republish", subId |-> clientSub.subscriptionList[idx].subId,
                          retransmitSequenceNumber |-> DEFAULT_RETRANSMIT_SEQUENCENUM,
                          serviceResult |-> serviceResult]>>)

\* executeSub with subType Edge_Republish_Sub, the republish service
\* answering serviceResult; BADMESSAGENOTAVAILABLE is only logged
rePublishWith(t, endpoint, valueAlias, serviceResult) ==
    /\ UNCHANGED <<receivedMsgCb, browseVars>>
    /\ Idle(t)
    /\ UNCHANGED <<sessionClientMap, clientCount, clientSubMap, pump, serializeMutex, caller, recvQ>>
    /\ LET client == getSessionClient(endpoint) IN
       IF client = NULL
       THEN last' = Ev("rePublish", t, NoEp, NULL, NoBatch, "NOCLIENT", "none", <<>>, <<>>)
       ELSE LET clientSub == get_subscription_list(client)
                idx == getSubInfo(clientSub.subscriptionList, valueAlias) IN
       IF ~clientSub.valid \/ idx = 0
       THEN last' = Ev("rePublish", t, NoEp, client, Batch(client, <<valueAlias>>),
                       "BADNOSUBSCRIPTION", "none", <<>>, <<>>)
       ELSE last' = Ev("rePublish", t, NoEp, client, Batch(client, <<valueAlias>>),
                       IF serviceResult \in {"GOOD", "BADMESSAGENOTAVAILABLE"} THEN "GOOD"
                       ELSE serviceResult,
                       "none", <<>>,
                       <<[fn |-> "Republish", subId |-> clientSub.subscriptionList[idx].subId,
                          retransmitSequenceNumber |-> DEFAULT_RETRANSMIT_SEQUENCENUM,
                          serviceResult |-> serviceResult]>>)

rePublish(t, endpoint, valueAlias) ==
    \E serviceResult \in {"GOOD", "BAD"} : rePublishWith(t, endpoint, valueAlias, serviceResult)

(* ------------------------- serialization mutex ------------------------- *)
\* threads are named <<"caller", t>> and <<"pump", p>>
pthread_mutex_lock(th) ==
    /\ serializeMutex = {}
    /\ serializeMutex' = {th}

pthread_mutex_unlock(th) == serializeMutex' = serializeMutex \ {th}

acquireSubscriptionLockInternal(t) ==
    /\ UNCHANGED <<receivedMsgCb, browseVars>>
    /\ Idle(t)
    /\ pthread_mutex_lock(<<"caller", t>>)
    /\ caller' = [caller EXCEPT ![t].pc = "locked"]
    /\ last' = Ev("acquireSubscriptionLockInternal", t, NoEp, NULL, NoBatch, "0", "none", <<>>, <<>>)
    /\ UNCHANGED <<sessionClientMap, clientCount, clientSubMap, pump, recvQ>>

releaseSubscriptionLockInternal(t) ==
    /\ UNCHANGED <<receivedMsgCb, browseVars>>
    /\ caller[t].pc = "locked"
    /\ pthread_mutex_unlock(<<"caller", t>>)
    /\ caller' = [caller EXCEPT ![t].pc = "idle"]
    /\ last' = Ev("releaseSubscriptionLockInternal", t, NoEp, NULL, NoBatch, "0", "none", <<>>, <<>>)
    /\ UNCHANGED <<sessionClientMap, clientCount, clientSubMap, pump, recvQ>>

(* ------------------------- stopSubscriptionThread ---------------------- *)
\* the call is made; the thread now waits in pthread_mutex_lock
stopSubscriptionThread(t, client) ==
    /\ UNCHANGED <<receivedMsgCb, browseVars>>
    /\ Idle(t)
    /\ caller' = [caller EXCEPT ![t] = [pc |-> "stop_lock", client |-> client, thread |-> 0]]
    /\ last' = Ev("stopSubscriptionThread_call", t, NoEp, client, NoBatch, "-", "none", <<>>, <<>>)
    /\ UNCHANGED <<sessionClientMap, clientCount, clientSubMap, pump, serializeMutex, recvQ>>

\* the mutex is taken; with a running pump the flag and the count are reset and
\* the thread waits in pthread_join with the mutex held, otherwise it unlocks
stopSubscriptionThread_locked(t) ==
    /\ UNCHANGED <<receivedMsgCb, browseVars>>
    /\ caller[t].pc = "stop_lock"
    /\ LET client == caller[t].client
           clientSub == get_subscription_list(client) IN
       IF clientSub.valid /\ clientSub.subscription_thread_running
       THEN /\ pthread_mutex_lock(<<"caller", t>>)
            /\ clientSubMap' = [clientSubMap EXCEPT
                   ![client].subscriptionCount = 0,
                   ![client].subscription_thread_running = FALSE]
            /\ caller' = [caller EXCEPT ![t].pc = "stop_join",
                                        ![t].thread = clientSub.subscription_thread]
            /\ last' = Ev("stopSubscriptionThread_join", t, NoEp, client, NoBatch, "-",
                          "reset", <<>>, <<>>)
       ELSE /\ serializeMutex = {}
            /\ UNCHANGED <<serializeMutex, clientSubMap>>
            /\ caller' = [caller EXCEPT ![t] = [pc |-> "idle", client |-> NULL, thread |-> 0]]
            /\ last' = Ev("stopSubscriptionThread", t, NoEp, client, NoBatch, "void",
                          "none", <<>>, <<>>)
    /\ UNCHANGED <<sessionClientMap, clientCount, pump, recvQ>>

stopSubscriptionThread_joined(t) ==
    /\ UNCHANGED <<receivedMsgCb, browseVars>>
    /\ caller[t].pc = "stop_join"
    /\ pthread_join(caller[t].thread)
    /\ pthread_mutex_unlock(<<"caller", t>>)
    /\ caller' = [caller EXCEPT ![t] = [pc |-> "idle", client |-> NULL, thread |-> 0]]
    /\ last' = Ev("stopSubscriptionThread", t, NoEp, caller[t].client, NoBatch, "void",
                  "joined", <<>>, <<>>)
    /\ UNCHANGED <<sessionClientMap, clientCount, clientSubMap, recvQ>>

(* ------------------------------ publish pump --------------------------- *)
PumpEv(op, p) == Ev(op, p, NoEp, pump[p].client, NoBatch, "-", "none", <<>>, <<>>)

\* subscription_thread_handler up to the loop: sets the running flag
pump_start(p) ==
    /\ UNCHANGED <<receivedMsgCb, browseVars>>
    /\ pump[p].pc = "start"
    /\ clientSubMap' = [clientSubMap EXCEPT ![pump[p].client].subscription_thread_running = TRUE]
    /\ pump' = [pump EXCEPT ![p].pc = "while"]
    /\ last' = PumpEv("pump_start", p)
    /\ UNCHANGED <<sessionClientMap, clientCount, serializeMutex, caller, recvQ>>

\* while (clientSub->subscription_thread_running)
pump_while(p) ==
    /\ UNCHANGED <<receivedMsgCb, browseVars>>
    /\ pump[p].pc = "while"
    /\ pump' = [pump EXCEPT ![p].pc =
                   IF clientSubMap[pump[p].client].subscription_thread_running
                   THEN "lock" ELSE "done"]
    /\ last' = PumpEv("pump_while", p)
    /\ UNCHANGED <<sessionClientMap, clientCount, clientSubMap, serializeMutex, caller, recvQ>>

pump_lock_trylock(p) ==
    /\ UNCHANGED <<receivedMsgCb, browseVars>>
    /\ pump[p].pc = "lock"
    /\ serializeMutex' = serializeMutex \cup {<<"pump", p>>}
    /\ pump' = [pump EXCEPT ![p].pc = "run"]
    /\ last' = PumpEv("pump_lock", p)
    /\ UNCHANGED <<sessionClientMap, clientCount, clientSubMap, caller, recvQ>>

pump_lock(p) ==
    /\ UNCHANGED <<receivedMsgCb, browseVars>>
    /\ pump[p].pc = "lock"
    /\ pthread_mutex_lock(<<"pump", p>>)
    /\ pump' = [pump EXCEPT ![p].pc = "run"]
    /\ last' = PumpEv("pump_lock", p)
    /\ UNCHANGED <<sessionClientMap, clientCount, clientSubMap, caller, recvQ>>

\* the UA_DataValue of a notification: status, hasValue and the shape of the
\* variant (UA_Variant_isScalar, arrayLength; an empty array has length 0)
DataValue(status, hasValue, isScalar, arrayLength) ==
    [status |-> status, hasValue |-> hasValue, isScalar |-> isScalar,
     arrayLength |-> arrayLength]

DataValues ==
    {DataValue("BAD", TRUE, TRUE, 0), DataValue("GOOD", FALSE, TRUE, 0),
     DataValue("GOOD", TRUE, TRUE, 0), DataValue("GOOD", TRUE, FALSE, 0)}

\* values that differ in what the REPORT carries: a scalar and an array
ReportValues ==
    {DataValue("BAD", TRUE, TRUE, 0),
     DataValue("GOOD", TRUE, TRUE, 0), DataValue("GOOD", TRUE, FALSE, 1)}

\* EdgeMalloc / EdgeCalloc return NULL for a request of no bytes or no elements
EdgeCalloc(num, size) == IF size = 0 \/ num = 0 THEN "NULL" ELSE "memory"

\* a handler that puts its REPORT in front of the messages that wait
monitoredItemHandler_front(q, value, client, valueAlias) ==
    IF value.status # "GOOD" \/ ~value.hasValue THEN q
    ELSE LET clientSub == get_subscription_list(client)
             idx == getSubInfo(clientSub.subscriptionList, valueAlias) IN
         IF ~clientSub.valid \/ idx = 0 THEN q
         ELSE IF ~value.isScalar /\ EdgeCalloc(value.arrayLength, 1) = "NULL" THEN q
         ELSE <<[type |-> "REPORT", valueAlias |-> valueAlias,
                 message_id |-> clientSub.subscriptionList[idx].msgId,
                 value |-> value]>> \o q

\* the data-change handler: the queue after a notification with the given
\* value for the item context (client, valueAlias).  The buffer of an array
\* value is allocated with arrayLength elements, and a NULL buffer sends the
\* handler to its ERROR exit, which frees the message
monitoredItemHandler(q, value, client, valueAlias) ==
    IF value.status # "GOOD" THEN q
    ELSE IF ~value.hasValue THEN q
    ELSE LET clientSub == get_subscription_list(client)
             idx == getSubInfo(clientSub.subscriptionList, valueAlias) IN
         IF ~clientSub.valid THEN q
         ELSE IF idx = 0 THEN q
         ELSE IF ~value.isScalar /\ EdgeCalloc(value.arrayLength, 1) = "NULL" THEN q
         ELSE Append(q, [type |-> "REPORT", valueAlias |-> valueAlias,
                         message_id |-> clientSub.subscriptionList[idx].msgId,
                         value |-> value])

\* what the event of a run cycle records of the notification it delivered
Notification(value, valueAlias) == [value |-> value, valueAlias |-> valueAlias]

\* UA_Client_runAsync with the mutex held: at most one notification, with a
\* value out of values, is delivered to the handler in a cycle while the
\* receive queue holds fewer than room messages; then unlock and sleep
pump_runWith(p, values, room) ==
    /\ UNCHANGED <<receivedMsgCb, browseVars>>
    /\ pump[p].pc = "run"
    /\ \/ /\ UNCHANGED recvQ
          /\ last' = Ev("UA_Client_runAsync", p, NoEp, pump[p].client, NoBatch, "-",
                        IF pump[p].freed THEN "freed" ELSE "none", <<>>, <<>>)
       \/ /\ Len(recvQ) < room
          /\ \E value \in values, valueAlias \in Aliases :
               /\ recvQ' = monitoredItemHandler(recvQ, value, pump[p].client, valueAlias)
               /\ last' = Ev("UA_Client_runAsync", p, NoEp, pump[p].client, NoBatch, "-",
                             IF pump[p].freed THEN "freed" ELSE "none",
                             <<Notification(value, valueAlias)>>, <<>>)
    /\ pthread_mutex_unlock(<<"pump", p>>)
    /\ pump' = [pump EXCEPT ![p].pc = "while"]
    /\ UNCHANGED <<sessionClientMap, clientCount, clientSubMap, caller>>

pump_run(p) == pump_runWith(p, DataValues, MaxQueue)

(* --------------------- dispatcher (opcua_manager.c) -------------------- *)
\* the types of an EdgeMessage; SEND_REQUEST stands for the types that are
\* requests and not results
MessageTypes == {"GENERAL_RESPONSE", "BROWSE_RESPONSE", "REPORT", "ERROR", "SEND_REQUEST"}

\* a NULL EdgeMessage pointer
NullMsg == [type |-> "NULL"]

\* the receive callbacks an application can configure: none, or a table
RecvCallbacks == {NULL, 1}

\* configure: registerRecvCallback stores the pointer as it is given
configure(recvCallback) ==
    /\ receivedMsgCb' = recvCallback
    /\ last' = Ev("configure", 0, NoEp, NULL, NoBatch, "void", "none", <<>>, <<>>)
    /\ UNCHANGED <<sessionClientMap, clientCount, clientSubMap, pump, serializeMutex,
                   caller, recvQ, browseVars>>

\* the member of the callback table that the switch on msg->type selects,
\* "" for the default case
MsgCb_swapped(type) ==
    CASE type = "GENERAL_RESPONSE" -> "resp_msg_cb"
      [] type = "BROWSE_RESPONSE" -> "monitored_msg_cb"
      [] type = "REPORT" -> "browse_msg_cb"
      [] type = "ERROR" -> "error_msg_cb"
      [] OTHER -> ""

MsgCb(type) ==
    CASE type = "GENERAL_RESPONSE" -> "resp_msg_cb"
      [] type = "BROWSE_RESPONSE" -> "browse_msg_cb"
      [] type = "REPORT" -> "monitored_msg_cb"
      [] type = "ERROR" -> "error_msg_cb"
      [] OTHER -> ""

\* an application callback invoked with a message
Callback(fn, msg) == [fn |-> fn, msg |-> msg]

\* onResponseMessage: the application callbacks it invokes for msg
onResponseMessage(msg) ==
    IF NULL = receivedMsgCb \/ NullMsg = msg THEN <<>>
    ELSE IF MsgCb(msg.type) = "" THEN <<>>
    ELSE <<Callback(MsgCb(msg.type), msg)>>

\* onResponseMessage called with a message that did not go through the
\* receive queue (it is the callback the command modules report errors to)
onResponseMessage_call(msg) ==
    /\ last' = Ev("onResponseMessage", 0, NoEp, NULL, NoBatch, "void", "none",
                  onResponseMessage(msg), <<Callback("onResponseMessage", msg)>>)
    /\ UNCHANGED <<sessionClientMap, clientCount, clientSubMap, pump, serializeMutex,
                   caller, recvQ, receivedMsgCb, browseVars>>

\* the consumer thread of the receive queue: takes the oldest message and
\* hands it to onResponseMessage
dispatcher ==
    /\ recvQ # <<>>
    /\ recvQ' = Tail(recvQ)
    /\ last' = Ev("dispatcher", 0, NoEp, NULL, NoBatch, "void", "none",
                  onResponseMessage(Head(recvQ)), <<>>)
    /\ UNCHANGED <<sessionClientMap, clientCount, clientSubMap, pump, serializeMutex,
                   caller, receivedMsgCb, browseVars>>

(* ------------------- browse engine (browse_common.c) ------------------- *)
\* browseNodes and the recursive browse() in the default mode (viewList is
\* NULL), one step for the service call, for the head of the result loop,
\* for each reference, for the end of a result and for each return.  The
\* ERROR messages go to the callback registered with
\* setErrorResponseCallback, the BROWSE_RESPONSEs to the receive queue.  The
\* allocations are taken to succeed (calloc of no elements included), and
\* the server to answer with one result for every node it was asked about.
\* browse names and string identifiers the server uses
Names == {"A", "B"}
\* a NULL name: convertUAStringToUnsignedChar of an empty string, and
\* convertNodeIdToString of a NodeId whose identifier is not a string
NoName == ""
\* a name of 1000 characters
LongName == "long"
\* the length class of a UA_String: 0, below 1000, 1000 and more
Length(s) == IF s = "" THEN 0 ELSE IF s = LongName THEN 1000 ELSE 1

\* UA_NodeId; numeric identifiers are not told apart, and the NULL NodeId is
\* the numeric identifier 0 of namespace 0
UA_NodeId(namespaceIndex, identifierType, identifier) ==
    [namespaceIndex |-> namespaceIndex, identifierType |-> identifierType,
     identifier |-> identifier]
UA_NODEID_NULL == UA_NodeId("0", "NUMERIC", "0")
NumericId == UA_NodeId("2", "NUMERIC", "n")
StringId(s) == UA_NodeId("2", "STRING", s)
UA_NodeId_isNull(nodeId) == nodeId = UA_NODEID_NULL

\* the string identifier of a STRING NodeId, NULL for the other types
convertNodeIdToString(nodeId) ==
    IF nodeId.identifierType = "STRING" THEN nodeId.identifier ELSE NoName

\* an entry of NodesToBrowse_t with its request id: nodeId[i], browseName[i],
\* reqIdList[i]
Node(nodeId, browseName, reqId) ==
    [nodeId |-> nodeId, browseName |-> browseName, reqId |-> reqId]

\* UA_ReferenceDescription, as far as browse() reads it
Ref(browseName, nodeClass, nodeId) ==
    [isForward |-> TRUE, browseName |-> browseName, nodeClass |-> nodeClass,
     displayName |-> "d", nodeId |-> nodeId, serverIndex |-> 0,
     referenceTypeId |-> NumericId, typeDefinition |-> NumericId]

\* references that pass every check: objects and variables with numeric
\* ids, an object whose string id is not its browse name, and a variable
\* with a string id whose display text starts with "v="
GoodReferences ==
    {Ref(n, c, NumericId) : n \in Names, c \in {"OBJECT", "VARIABLE"}}
        \cup {Ref("B", "OBJECT", StringId("A")),
              [Ref("A", "VARIABLE", StringId("A")) EXCEPT !.displayName = "v=1"]}

\* references that fail one check, or two
BadReferences ==
    {[Ref("A", "OBJECT", NumericId) EXCEPT !.isForward = FALSE],
     [Ref("A", "OBJECT", NumericId) EXCEPT !.browseName = ""],
     [Ref("A", "OBJECT", NumericId) EXCEPT !.serverIndex = 1, !.typeDefinition = UA_NODEID_NULL]}

References == GoodReferences \cup BadReferences

Directions == {"DIRECTION_FORWARD", "DIRECTION_INVERSE"}

\* an ERROR message as invokeErrorCb builds it
ErrorMsg(srcMsgId, srcNodeId, edgeResult, versatileValue) ==
    [type |-> "ERROR", message_id |-> srcMsgId, nodeId |-> srcNodeId,
     result |-> edgeResult, value |-> versatileValue]

\* checkContinuationPoint with a length of 1000 let through
checkContinuationPoint_lax(msgId, cpLength, referencesSize, srcNodeId) ==
    IF cpLength > 1000
    THEN <<ErrorMsg(msgId, srcNodeId, "STATUS_ERROR", "CONTINUATIONPOINT_LONG")>>
    ELSE IF cpLength > 0 /\ referencesSize <= 0
    THEN <<ErrorMsg(msgId, srcNodeId, "STATUS_ERROR", "STATUS_VIEW_REFERENCE_DATA_INVALID")>>
    ELSE <<>>

\* the check functions: the ERROR messages each one sends (none: passed)
checkContinuationPoint(msgId, cpLength, referencesSize, srcNodeId) ==
    IF cpLength >= 1000
    THEN <<ErrorMsg(msgId, srcNodeId, "STATUS_ERROR", "CONTINUATIONPOINT_LONG")>>
    ELSE IF cpLength > 0 /\ referencesSize <= 0
    THEN <<ErrorMsg(msgId, srcNodeId, "STATUS_ERROR", "STATUS_VIEW_REFERENCE_DATA_INVALID")>>
    ELSE <<>>

checkBrowseName(msgId, browseName, srcNodeId) ==
    IF Length(browseName) <= 0
    THEN <<ErrorMsg(msgId, srcNodeId, "STATUS_ERROR", "BROWSENAME_EMPTY")>>
    ELSE IF Length(browseName) >= 1000
    THEN <<ErrorMsg(msgId, srcNodeId, "STATUS_ERROR", "BROWSENAME_LONG")>>
    ELSE <<>>

isNodeClassValid(nodeClass) == nodeClass # "INVALID"
BROWSE_NODECLASS_MASK == {"OBJECT", "VARIABLE", "VIEW", "METHOD"}

checkNodeClass(msgId, nodeClass, srcNodeId) ==
    IF ~isNodeClassValid(nodeClass)
    THEN <<ErrorMsg(msgId, srcNodeId, "STATUS_ERROR", "NODECLASS_INVALID")>>
    ELSE IF nodeClass \notin BROWSE_NODECLASS_MASK
    THEN <<ErrorMsg(msgId, srcNodeId, "STATUS_ERROR", "STATUS_VIEW_NOTINCLUDE_NODECLASS")>>
    ELSE <<>>

checkDisplayName(msgId, displayName, srcNodeId) ==
    IF Length(displayName) <= 0
    THEN <<ErrorMsg(msgId, srcNodeId, "STATUS_ERROR", "DISPLAYNAME_EMPTY")>>
    ELSE IF Length(displayName) >= 1000
    THEN <<ErrorMsg(msgId, srcNodeId, "STATUS_ERROR", "DISPLAYNAME_LONG")>>
    ELSE <<>>

checkNodeId(msgId, ref, srcNodeId) ==
    IF UA_NodeId_isNull(ref.nodeId)
    THEN <<ErrorMsg(msgId, srcNodeId, "STATUS_ERROR", "NODEID_NULL")>>
    ELSE IF ref.serverIndex # 0
    THEN <<ErrorMsg(msgId, srcNodeId, "STATUS_ERROR", "NODEID_SERVERINDEX")>>
    ELSE <<>>

checkReferenceTypeId(msgId, nodeId, srcNodeId) ==
    IF UA_NodeId_isNull(nodeId)
    THEN <<ErrorMsg(msgId, srcNodeId, "STATUS_ERROR", "REFERENCETYPEID_NULL")>>
    ELSE <<>>

checkTypeDefinition(msgId, ref, srcNodeId) ==
    IF ref.nodeClass \in {"OBJECT", "VARIABLE"} /\ UA_NodeId_isNull(ref.typeDefinition)
    THEN <<ErrorMsg(msgId, srcNodeId, "STATUS_ERROR", "TYPEDEFINITIONNODEID_NULL")>>
    ELSE <<>>

\* the direction test and the six checks of one reference, in the order of
\* the code; the reference is in error when any message is sent
checkReference(msgId, direction, ref, srcNodeId) ==
    (IF \/ direction = "DIRECTION_FORWARD" /\ ~ref.isForward
        \/ direction = "DIRECTION_INVERSE" /\ ref.isForward
     THEN <<ErrorMsg(msgId, srcNodeId, "STATUS_VIEW_DIRECTION_NOT_MATCH",
                     "STATUS_VIEW_DIRECTION_NOT_MATCH")>>
     ELSE <<>>)
        \o checkBrowseName(msgId, ref.browseName, srcNodeId)
        \o checkNodeClass(msgId, ref.nodeClass, srcNodeId)
        \o checkDisplayName(msgId, ref.displayName, srcNodeId)
        \o checkNodeId(msgId, ref, srcNodeId)
        \o checkReferenceTypeId(msgId, ref.referenceTypeId, srcNodeId)
        \o checkTypeDefinition(msgId, ref, srcNodeId)

\* the browse path list holds (edgeNodeId, browseName) entries, the head first
pushBrowsePathNode(list, edgeNodeId, browseName) ==
    Append(list, [edgeNodeId |-> edgeNodeId, browseName |-> browseName])

popBrowsePathNode(list) ==
    IF list = <<>> THEN list ELSE SubSeq(list, 1, Len(list) - 1)

\* "/" and the name, for every entry that has a name; a path is the sequence
\* of its pieces, and NULL is the empty sequence
RECURSIVE getCurrentBrowsePath(_)
getCurrentBrowsePath(list) ==
    IF list = <<>> THEN <<>>
    ELSE IF Head(list).browseName = NoName THEN getCurrentBrowsePath(Tail(list))
    ELSE <<"/", Head(list).browseName>> \o getCurrentBrowsePath(Tail(list))

\* the test against the tail of the list alone
hasNode_tail(browseName, list) ==
    /\ browseName # NoName
    /\ list # <<>>
    /\ list[Len(list)].browseName # NoName
    /\ list[Len(list)].browseName = browseName

\* the browse name of the reference is the name of an entry of the list
hasNode(browseName, list) ==
    /\ browseName # NoName
    /\ \E k \in 1..Len(list) :
          list[k].browseName # NoName /\ list[k].browseName = browseName

getCharacterNodeIdType(identifierType) ==
    CASE identifierType = "NUMERIC" -> "i"
      [] identifierType = "STRING" -> "s"
      [] identifierType = "BYTESTRING" -> "b"
      [] identifierType = "GUID" -> "g"
      [] OTHER -> "?"

\* "{ns;T}" for the NodeIds without a string, "{ns;T;v=..}" for those with
\* one (the display text when it starts with "v=", else "v=0"), and then
\* the browse name
getValueAlias(browseName, nodeId, displayText) ==
    (IF nodeId.identifierType = "STRING"
     THEN <<"{", nodeId.namespaceIndex, ";", getCharacterNodeIdType(nodeId.identifierType),
            ";", IF displayText = "v=1" THEN displayText ELSE "v=0", "}">>
     ELSE <<"{", nodeId.namespaceIndex, ";", getCharacterNodeIdType(nodeId.identifierType), "}">>)
        \o (IF browseName = NoName THEN <<>> ELSE <<browseName>>)

\* the current path, "/" and the pieces of the valueAlias
getCompleteBrowsePath(valueAlias, list) ==
    getCurrentBrowsePath(list) \o <<"/">> \o valueAlias

\* the name a BROWSE_RESPONSE reports for a reference
browseResultName(ref) ==
    IF ref.nodeId.identifierType = "STRING" THEN ref.nodeId.identifier ELSE ref.browseName

\* the BROWSE_RESPONSE invokeResponseCb queues for a reference
BrowseResponse(msg, msgId, srcNodeId, browseName, browsePath, valueAlias) ==
    [type |-> "BROWSE_RESPONSE", message_id |-> msg.message_id, nodeId |-> srcNodeId,
     valueAlias |-> valueAlias, requestId |-> msgId, browseName |-> browseName,
     value |-> browsePath]

\* no browse request is being worked on
NoMsg == [type |-> "none"]

\* messages counted up to a limit
Count(n, k, limit) == IF n + k < limit THEN n + k ELSE limit

\* the request with the ERROR messages cb and k more BROWSE_RESPONSEs
\* counted: no, one or several ERRORs, no or some BROWSE_RESPONSEs
Tally(msg, cb, k) ==
    [msg EXCEPT !.errors = Count(@, Len(cb), 2), !.responses = Count(@, k, 1)]

BrowseEv(op, ret, cb, calls) == Ev(op, 0, NoEp, NULL, NoBatch, ret, "none", cb, calls)

\* a result of the server's answer, as the event of its round records it
BrowseResult(statusCode, cpLength, referencesSize) ==
    [fn |-> "UA_BrowseResult", statusCode |-> statusCode, cpLength |-> cpLength,
     referencesSize |-> referencesSize]

\* a reference of the server's answer, as the event of its round records it
Reference(ref) == [fn |-> "UA_ReferenceDescription", ref |-> ref]

\* an activation of browse(): its arguments browseNodesInfo and reqIdList
\* (nodes) and browseNext, and its locals: the index i of the result, the
\* references of that result (referencesSize, continuation point length,
\* the index j), nodeIdUnknownCount, the next frontier, statusCode
Frame(nodes, browseNext) ==
    [pc |-> "call", nodes |-> nodes, browseNext |-> browseNext, serviceResult |-> "-",
     i |-> 0, nodeIdUnknownCount |-> 0, referencesSize |-> 0, cpLength |-> 0, j |-> 0,
     next |-> <<>>, statusCode |-> "-"]

top == browseFrames[Len(browseFrames)]
SetTop(f) == [browseFrames EXCEPT ![Len(browseFrames)] = f]

\* the end of one round of the result loop: the next result, or the end of
\* the loop with statusCode = STATUS_OK
NextResult(f) ==
    IF f.i < Len(f.nodes)
    THEN [f EXCEPT !.pc = "result", !.i = f.i + 1, !.referencesSize = 0, !.cpLength = 0,
                   !.j = 0, !.next = <<>>]
    ELSE [f EXCEPT !.pc = "return", !.statusCode = "STATUS_OK", !.referencesSize = 0,
                   !.cpLength = 0, !.j = 0, !.next = <<>>]

\* the starting nodes of a request: NodeIds with a number or with the string
\* "A"; the request id of a node is its index, from 0
StartIds == {NumericId, StringId("A")}
StartLists == UNION {[1..n -> StartIds] : n \in StartSizes}
\* the cap on the starting nodes of one request (edge_opcua_common.h), scaled
MAX_BROWSEREQUEST_SIZE == 2

\* what an event records of a browse request: the number of its starting nodes
BrowseBatch(ids) == [NoBatch EXCEPT !.n = Len(ids)]

\* browseNodes without the test of the number of nodes
browseNodes_uncapped(type, ids, direction, m) ==
    /\ browseMsg = NoMsg
    /\ type = "SEND_REQUEST" => Len(ids) = 1
    /\ browseMsg' = [type |-> "SEND", message_id |-> m, direction |-> direction,
                     errors |-> 0, responses |-> 0]
    /\ browseFrames' = <<Frame([k \in 1..Len(ids) |->
                                  Node(ids[k], convertNodeIdToString(ids[k]), k - 1)], FALSE)>>
    /\ browsePathList' = <<>>
    /\ last' = Ev("browseNodes", 0, NoEp, NULL, BrowseBatch(ids), "-", type, <<>>, <<>>)
    /\ UNCHANGED <<sessionClientMap, clientCount, clientSubMap, pump, serializeMutex,
                   caller, recvQ, receivedMsgCb>>

\* browseNodes up to its call of browse(): the node list is built, a
\* SEND_REQUESTS message with too many nodes is refused with one ERROR
browseNodes(type, ids, direction, m) ==
    /\ browseMsg = NoMsg
    /\ type = "SEND_REQUEST" => Len(ids) = 1
    /\ LET msg == [type |-> "SEND", message_id |-> m, direction |-> direction,
                   errors |-> 0, responses |-> 0]
           nodes == [k \in 1..Len(ids) |-> Node(ids[k], convertNodeIdToString(ids[k]), k - 1)] IN
       IF type = "SEND_REQUESTS" /\ Len(ids) > MAX_BROWSEREQUEST_SIZE
       THEN /\ last' = Ev("browseNodes", 0, NoEp, NULL, BrowseBatch(ids), "void", type,
                          <<ErrorMsg(m, ids[1], "STATUS_ERROR",
                                     "STATUS_VIEW_BROWSEREQUEST_SIZEOVER")>>, <<>>)
            /\ UNCHANGED browseVars
       ELSE /\ browseMsg' = msg
            /\ browseFrames' = <<Frame(nodes, FALSE)>>
            /\ browsePathList' = <<>>
            /\ last' = Ev("browseNodes", 0, NoEp, NULL, BrowseBatch(ids), "-", type,
                          <<>>, <<>>)
    /\ UNCHANGED <<sessionClientMap, clientCount, clientSubMap, pump, serializeMutex,
                   caller, recvQ, receivedMsgCb>>

\* the service call of an activation: a response that is not GOOD or has no
\* results sends one ERROR and ends the activation with that status; the
\* server answers with one result for every node otherwise
browse_call(serviceResult, resultsSize) ==
    /\ browseFrames # <<>>
    /\ top.pc = "call"
    /\ resultsSize \in {0, Len(top.nodes)}
    /\ LET statusCode == IF resultsSize <= 0 THEN "STATUS_VIEW_BROWSERESULT_EMPTY"
                         ELSE "STATUS_SERVICE_RESULT_BAD"
           nodeInfo == browseFrames[1].nodes[1]
           cb == <<ErrorMsg(browseMsg.message_id, nodeInfo.nodeId, statusCode, statusCode)>> IN
       IF serviceResult # "GOOD" \/ resultsSize <= 0
       THEN /\ browseFrames' = SetTop([top EXCEPT !.pc = "return", !.statusCode = statusCode,
                                                  !.serviceResult = serviceResult])
            /\ browseMsg' = Tally(browseMsg, cb, 0)
            /\ last' = BrowseEv("browse_call", statusCode, cb,
                                 <<Answer("UA_Client_Service_browse", serviceResult)>>)
       ELSE /\ browseFrames' = SetTop([top EXCEPT !.pc = "result", !.i = 1,
                                                  !.serviceResult = serviceResult])
            /\ browseMsg' = browseMsg
            /\ last' = BrowseEv("browse_call", "-", <<>>,
                                 <<Answer("UA_Client_Service_browse", serviceResult)>>)
    /\ UNCHANGED <<sessionClientMap, clientCount, clientSubMap, pump, serializeMutex,
                   caller, recvQ, receivedMsgCb, browsePathList>>

\* the status codes, continuation point lengths and numbers of references
\* of a result
ResultStatus == {"GOOD", "BADNODEIDUNKNOWN", "BADINTERNALERROR"}
CpLengths == {0, 1, 1000}

\* the head of the result loop for result i: the node is pushed on the browse
\* path, and a result with a bad status, with a continuation point that is
\* refused, or (browseNext) without references sends one ERROR and goes on
\* to the next result
browse_result(status, cpLength, referencesSize) ==
    /\ browseFrames # <<>>
    /\ top.pc = "result"
    /\ LET node == top.nodes[top.i]
           count == IF status = "BADNODEIDUNKNOWN" THEN top.nodeIdUnknownCount + 1
                    ELSE top.nodeIdUnknownCount
           m == browseMsg.message_id
           cb == IF status # "GOOD"
                 THEN IF count = Len(top.nodes)
                      THEN <<ErrorMsg(m, node.nodeId, "STATUS_VIEW_NODEID_UNKNOWN_ALL_RESULTS",
                                      "STATUS_VIEW_NODEID_UNKNOWN_ALL_RESULTS")>>
                      ELSE <<ErrorMsg(m, node.nodeId, "STATUS_VIEW_RESULT_STATUS_CODE_BAD", status)>>
                 ELSE IF checkContinuationPoint(m, cpLength, referencesSize, node.nodeId) # <<>>
                 THEN checkContinuationPoint(m, cpLength, referencesSize, node.nodeId)
                 ELSE IF top.browseNext /\ referencesSize = 0
                 THEN <<ErrorMsg(m, node.nodeId, "STATUS_ERROR",
                                 "STATUS_VIEW_REFERENCE_DATA_INVALID")>>
                 ELSE <<>> IN
       /\ browsePathList' = pushBrowsePathNode(browsePathList, node.nodeId, node.browseName)
       /\ browseFrames' =
            IF cb # <<>>
            THEN SetTop(NextResult([top EXCEPT !.nodeIdUnknownCount = count]))
            ELSE SetTop([top EXCEPT !.pc = "refs", !.referencesSize = referencesSize,
                                    !.cpLength = cpLength, !.j = 0, !.next = <<>>])
       /\ browseMsg' = Tally(browseMsg, cb, 0)
       /\ last' = BrowseEv("browse_result", status, cb,
                            <<BrowseResult(status, cpLength, referencesSize)>>)
    /\ UNCHANGED <<sessionClientMap, clientCount, clientSubMap, pump, serializeMutex,
                   caller, recvQ, receivedMsgCb>>

\* the reference loop with the index of the reference as the request id of
\* the frontier
browse_reference_indexed(ref) ==
    /\ browseFrames # <<>>
    /\ top.pc = "refs"
    /\ top.j < top.referencesSize
    /\ LET node == top.nodes[top.i]
           cb == checkReference(browseMsg.message_id, browseMsg.direction, ref, node.nodeId)
           report == cb = <<>> /\ ~hasNode(ref.browseName, browsePathList)
           browseName == browseResultName(ref)
           valueAlias == getValueAlias(browseName, ref.nodeId, ref.displayName)
           completePath == getCompleteBrowsePath(valueAlias, browsePathList)
           next == IF report /\ ref.nodeClass # "VARIABLE"
                   THEN Append(top.next, Node(ref.nodeId, ref.browseName, top.j))
                   ELSE top.next IN
       /\ report => Len(recvQ) < MaxQueue
       /\ recvQ' = IF report
                   THEN Append(recvQ, BrowseResponse(browseMsg, node.reqId, node.nodeId,
                                                     browseName, completePath, valueAlias))
                   ELSE recvQ
       /\ browseFrames' = SetTop([top EXCEPT !.j = top.j + 1, !.next = next])
       /\ browseMsg' = Tally(browseMsg, cb, IF report THEN 1 ELSE 0)
       /\ last' = BrowseEv("browse_reference", IF report THEN "reported" ELSE "-", cb,
                            <<Reference(ref)>>)
    /\ UNCHANGED <<sessionClientMap, clientCount, clientSubMap, pump, serializeMutex,
                   caller, receivedMsgCb, browsePathList>>

\* one round of the reference loop
browse_reference(ref) ==
    /\ browseFrames # <<>>
    /\ top.pc = "refs"
    /\ top.j < top.referencesSize
    /\ LET node == top.nodes[top.i]
           cb == checkReference(browseMsg.message_id, browseMsg.direction, ref, node.nodeId)
           report == cb = <<>> /\ ~hasNode(ref.browseName, browsePathList)
           browseName == browseResultName(ref)
           valueAlias == getValueAlias(browseName, ref.nodeId, ref.displayName)
           completePath == getCompleteBrowsePath(valueAlias, browsePathList)
           next == IF report /\ ref.nodeClass # "VARIABLE"
                   THEN Append(top.next, Node(ref.nodeId, ref.browseName, node.reqId))
                   ELSE top.next IN
       /\ report => Len(recvQ) < MaxQueue
       /\ recvQ' = IF report
                   THEN Append(recvQ, BrowseResponse(browseMsg, node.reqId, node.nodeId,
                                                     browseName, completePath, valueAlias))
                   ELSE recvQ
       /\ browseFrames' = SetTop([top EXCEPT !.j = top.j + 1, !.next = next])
       /\ browseMsg' = Tally(browseMsg, cb, IF report THEN 1 ELSE 0)
       /\ last' = BrowseEv("browse_reference", IF report THEN "reported" ELSE "-", cb,
                            <<Reference(ref)>>)
    /\ UNCHANGED <<sessionClientMap, clientCount, clientSubMap, pump, serializeMutex,
                   caller, receivedMsgCb, browsePathList>>

\* the BROWSE_RESPONSE that carries a continuation point and the browse
\* prefix, the current path without its leading "/"
ContinuationResponse(msg, msgId, srcNodeId, cpLength, browsePrefix) ==
    [type |-> "BROWSE_RESPONSE", message_id |-> msg.message_id, nodeId |-> srcNodeId,
     requestId |-> msgId, cpLength |-> cpLength,
     browsePrefix |-> IF browsePrefix = <<>> THEN <<>> ELSE Tail(browsePrefix)]

\* after the references of result i: the continuation point is passed on,
\* then browse() is called for the frontier, or (no frontier) the node is
\* popped and the loop goes on
browse_resultEnd ==
    /\ browseFrames # <<>>
    /\ top.pc = "refs"
    /\ top.j = top.referencesSize
    /\ LET node == top.nodes[top.i] IN
       /\ top.cpLength > 0 => Len(recvQ) < MaxQueue
       /\ recvQ' = IF top.cpLength > 0
                   THEN Append(recvQ, ContinuationResponse(browseMsg, node.reqId, node.nodeId,
                                          top.cpLength, getCurrentBrowsePath(browsePathList)))
                   ELSE recvQ
       /\ browseMsg' = Tally(browseMsg, <<>>, IF top.cpLength > 0 THEN 1 ELSE 0)
       /\ IF Len(top.next) > 0
          THEN /\ browseFrames' = Append(SetTop([top EXCEPT !.pc = "recurse"]),
                                         Frame(top.next, FALSE))
               /\ browsePathList' = browsePathList
          ELSE /\ browseFrames' = SetTop(NextResult(top))
               /\ browsePathList' = popBrowsePathNode(browsePathList)
       /\ last' = BrowseEv("browse_resultEnd", "-", <<>>, <<>>)
    /\ UNCHANGED <<sessionClientMap, clientCount, clientSubMap, pump, serializeMutex,
                   caller, receivedMsgCb>>

\* an activation for a frontier returns: its status is not looked at, the
\* node of the caller's result is popped and the caller's loop goes on
browse_return ==
    /\ Len(browseFrames) > 1
    /\ top.pc = "return"
    /\ LET caller_ == browseFrames[Len(browseFrames) - 1] IN
         browseFrames' = [SubSeq(browseFrames, 1, Len(browseFrames) - 1)
                             EXCEPT ![Len(browseFrames) - 1] = NextResult(caller_)]
    /\ browsePathList' = popBrowsePathNode(browsePathList)
    /\ last' = BrowseEv("browse_return", top.statusCode, <<>>, <<>>)
    /\ UNCHANGED <<sessionClientMap, clientCount, clientSubMap, pump, serializeMutex,
                   caller, recvQ, receivedMsgCb, browseMsg>>

\* a result with a good status whose allocation of the next request ids or
\* of the next node list fails: the node is on the browse path, the
\* activation ends at EXIT with STATUS_INTERNAL_ERROR and sends nothing
browse_result_nomem ==
    /\ browseFrames # <<>>
    /\ top.pc = "result"
    /\ browsePathList' = pushBrowsePathNode(browsePathList, top.nodes[top.i].nodeId,
                                            top.nodes[top.i].browseName)
    /\ browseFrames' = SetTop([top EXCEPT !.pc = "return",
                                          !.statusCode = "STATUS_INTERNAL_ERROR"])
    /\ last' = BrowseEv("browse_result_nomem", "STATUS_INTERNAL_ERROR", <<>>, <<>>)
    /\ UNCHANGED <<sessionClientMap, clientCount, clientSubMap, pump, serializeMutex,
                   caller, recvQ, receivedMsgCb, browseMsg>>

\* a reference that passes the checks and is not on the path, whose
\* EdgeBrowseResult or browse name cannot be allocated: the activation ends
\* at EXIT with STATUS_INTERNAL_ERROR, nothing is queued for the reference
browse_reference_nomem(ref) ==
    /\ browseFrames # <<>>
    /\ top.pc = "refs"
    /\ top.j < top.referencesSize
    /\ checkReference(browseMsg.message_id, browseMsg.direction, ref,
                      top.nodes[top.i].nodeId) = <<>>
    /\ ~hasNode(ref.browseName, browsePathList)
    /\ browseFrames' = SetTop([top EXCEPT !.pc = "return",
                                          !.statusCode = "STATUS_INTERNAL_ERROR"])
    /\ last' = BrowseEv("browse_reference_nomem", "STATUS_INTERNAL_ERROR", <<>>,
                        <<Reference(ref)>>)
    /\ UNCHANGED <<sessionClientMap, clientCount, clientSubMap, pump, serializeMutex,
                   caller, recvQ, receivedMsgCb, browseMsg, browsePathList>>

\* browse() returns to browseNodes: a status other than STATUS_OK sends the
\* ERROR "Browse failed.", and the browse path list is destroyed
browseNodes_return ==
    /\ Len(browseFrames) = 1
    /\ top.pc = "return"
    /\ LET cb == IF top.statusCode # "STATUS_OK"
                 THEN <<ErrorMsg(browseMsg.message_id, UA_NODEID_NULL, "STATUS_ERROR",
                                 "Browse failed.")>>
                 ELSE <<>> IN
         last' = BrowseEv("browseNodes_return", top.statusCode, cb, <<>>)
    /\ browseMsg' = NoMsg
    /\ browseFrames' = <<>>
    /\ browsePathList' = <<>>
    /\ UNCHANGED <<sessionClientMap, clientCount, clientSubMap, pump, serializeMutex,
                   caller, recvQ, receivedMsgCb>>

(* --------------------------- read (read.c) ----------------------------- *)
\* readNode for a batch of nodes: one read service call, then one round of
\* the result loop for every node.  sendErrorResponse queues one ERROR
\* message with the description it is given; the server answers with one
\* result for every node, the values are of a known type and the
\* allocations succeed.
ReadError(m, errorDesc, position) ==
    [type |-> "ERROR", message_id |-> m, value |-> errorDesc, position |-> position]

ReadResponse(m, responses) ==
    [type |-> "GENERAL_RESPONSE", message_id |-> m, responses |-> responses]

\* the result loop from round i on: out is what was queued so far and
\* responses the responses of resultMsg; a bad status of the only node ends
\* the loop at EXIT, a bad status of one of several nodes queues an ERROR
\* with the position; the end of the loop is <<queued messages, responses,
\* the loop ended at EXIT>>
RECURSIVE readGroup_loop(_, _, _, _, _)
readGroup_loop(m, statuses, i, out, responses) ==
    IF i > Len(statuses) THEN <<out, responses, FALSE>>
    ELSE IF statuses[i] = "GOOD"
    THEN readGroup_loop(m, statuses, i + 1, out, Append(responses, [requestId |-> i - 1]))
    ELSE IF 1 = Len(statuses)
    THEN <<Append(out, ReadError(m, "Bad service result for the given node", -1)),
           responses, TRUE>>
    ELSE readGroup_loop(m, statuses, i + 1,
                        Append(out, ReadError(m, "Bad service result for the node at position",
                                              i - 1)),
                        responses)

\* readGroup that queues resultMsg whatever the number of its responses
readGroup_unchecked(m, serviceResult, statuses) ==
    IF serviceResult # "GOOD" THEN <<ReadError(m, "Error in read.", -1)>>
    ELSE LET r == readGroup_loop(m, statuses, 1, <<>>, <<>>) IN
         IF r[3] THEN r[1]
         ELSE Append(r[1], ReadResponse(m, r[2]))

\* the messages readGroup adds to the receive queue, in their order
readGroup(m, serviceResult, statuses) ==
    IF serviceResult # "GOOD" THEN <<ReadError(m, "Error in read.", -1)>>
    ELSE LET r == readGroup_loop(m, statuses, 1, <<>>, <<>>) IN
         IF r[3] THEN r[1]
         ELSE IF Len(statuses) > 1 /\ Len(r[2]) < 1
         THEN Append(r[1], ReadError(m, "There are no valid responses.", -1))
         ELSE Append(r[1], ReadResponse(m, r[2]))

\* readNode: readNodesFromServer looks the session up and executeRead
\* reads; without a session nothing is called and STATUS_ERROR is the
\* result, with one the result is STATUS_OK.  The consumer has emptied the
\* receive queue before.
readNodesFromServer(t, endpoint, m, serviceResult, statuses) ==
    /\ Idle(t)
    /\ recvQ = <<>>
    /\ LET client == getSessionClient(endpoint) IN
       IF client = NULL
       THEN /\ recvQ' = recvQ
            /\ last' = Ev("readNode", t, NoEp, NULL, [NoBatch EXCEPT !.n = Len(statuses)],
                          "STATUS_ERROR", "none", <<>>, <<>>)
       ELSE /\ recvQ' = recvQ \o readGroup(m, serviceResult, statuses)
            /\ last' = Ev("readNode", t, NoEp, client, [NoBatch EXCEPT !.n = Len(statuses)],
                          "STATUS_OK", "none", <<>>,
                          <<[fn |-> "UA_Client_Service_read", subId |-> 0,
                             serviceResult |-> serviceResult, results |-> statuses]>>)
    /\ UNCHANGED <<sessionClientMap, clientCount, clientSubMap, pump, serializeMutex,
                   caller, receivedMsgCb, browseVars>>

\* the code of the EdgeResult of executeSub for the status of its operation
executeSub_result(retVal) == IF retVal = "GOOD" THEN "STATUS_OK" ELSE "STATUS_ERROR"

(* ------------------ discovery (edge_discovery_common.c) ---------------- *)
\* a string is the sequence of its characters
DigitChars == <<"0", "1", "2", "3", "4", "5", "6", "7", "8", "9">>
IsDigit(c) == \E k \in 1..10 : DigitChars[k] = c
DigitValue(c) == CHOOSE d \in 0..9 : DigitChars[d + 1] = c

\* unsigned int value, 32 bits wide, as its two halves of 16 bits <<high, low>>
TimesTenPlus(value, d) ==
    LET low == value[2] * 10 + d
        high == value[1] * 10 + low \div 65536 IN
    <<high % 65536, low % 65536>>
Above255(value) == value[1] > 0 \/ value[2] > 255

\* the loop without the test of the value of a segment at its dot
RECURSIVE isIPv4AddressValid_loop_dotOpen(_, _, _, _, _)
isIPv4AddressValid_loop_dotOpen(data, i, value, numOfDigitsInSegment, numOfDots) ==
    IF i > Len(data)
    THEN ~(numOfDots # 3 \/ numOfDigitsInSegment < 1 \/ numOfDigitsInSegment > 3
             \/ Above255(value))
    ELSE IF data[i] = "."
    THEN IF numOfDigitsInSegment < 1 \/ numOfDigitsInSegment > 3
         THEN FALSE
         ELSE isIPv4AddressValid_loop_dotOpen(data, i + 1, <<0, 0>>, 0, numOfDots + 1)
    ELSE IF ~IsDigit(data[i])
    THEN FALSE
    ELSE isIPv4AddressValid_loop_dotOpen(data, i + 1,
                                         TimesTenPlus(value, DigitValue(data[i])),
                                         numOfDigitsInSegment + 1, numOfDots)

\* the loop of isIPv4AddressValid from index i on and the test after it
RECURSIVE isIPv4AddressValid_loop(_, _, _, _, _)
isIPv4AddressValid_loop(data, i, value, numOfDigitsInSegment, numOfDots) ==
    IF i > Len(data)
    THEN ~(numOfDots # 3 \/ numOfDigitsInSegment < 1 \/ numOfDigitsInSegment > 3
             \/ Above255(value))
    ELSE IF data[i] = "."
    THEN IF numOfDigitsInSegment < 1 \/ numOfDigitsInSegment > 3 \/ Above255(value)
         THEN FALSE
         ELSE isIPv4AddressValid_loop(data, i + 1, <<0, 0>>, 0, numOfDots + 1)
    ELSE IF ~IsDigit(data[i])
    THEN FALSE
    ELSE isIPv4AddressValid_loop(data, i + 1, TimesTenPlus(value, DigitValue(data[i])),
                                 numOfDigitsInSegment + 1, numOfDots)

isIPv4AddressValid(ipv4Address) ==
    IF Len(ipv4Address) < 7 \/ Len(ipv4Address) > 15 THEN FALSE
    ELSE isIPv4AddressValid_loop(ipv4Address, 1, <<0, 0>>, 0, 0)

\* an application description as far as isServerAppDescriptionValid reads
\* it: the application URI is scheme and rest ("urn:" and a name, or
\* "opc.tcp://" and what follows); parse and hostName are the answer of
\* UA_parseEndpointUrl; matches says whether the URI and the locale pass
\* the lists of server URIs and of locales of the request
AppDescription(typeSupported, scheme, parse, hostName, matches) ==
    [applicationTypeSupported |-> typeSupported, scheme |-> scheme, parse |-> parse,
     hostName |-> hostName, matches |-> matches]

applicationUriLength(regServer) ==
    (IF regServer.scheme = "urn:" THEN 4 ELSE 10) + Len(regServer.hostName)

isServerAppDescriptionValid(regServer) ==
    IF ~regServer.applicationTypeSupported THEN FALSE
    ELSE IF 0 = applicationUriLength(regServer) THEN FALSE
    ELSE IF applicationUriLength(regServer) < 5 THEN FALSE
    ELSE IF regServer.scheme # "urn:" /\ regServer.parse # "GOOD" THEN FALSE
    ELSE IF regServer.scheme # "urn:" /\ 0 = Len(regServer.hostName) THEN FALSE
    ELSE IF /\ regServer.scheme # "urn:"
            /\ regServer.hostName[1] # "[" /\ regServer.hostName[1] \in {"1", "2"}
            /\ ~isIPv4AddressValid(regServer.hostName)
    THEN FALSE
    ELSE regServer.matches

\* an application description arrives; the two functions are applied to it
Received(regServer) ==
    Ev("received", 0, NoEp, NULL, NoBatch, "-", "none", <<>>, <<regServer>>)

isIPv4AddressValid_call ==
    /\ last.op = "received"
    /\ last' = Ev("isIPv4AddressValid", 0, NoEp, NULL, NoBatch,
                  isIPv4AddressValid(last.calls[1].hostName), "none", <<>>, last.calls)
    /\ UNCHANGED <<sessionClientMap, clientCount, clientSubMap, pump, serializeMutex,
                   caller, recvQ, receivedMsgCb, browseVars>>

isServerAppDescriptionValid_call ==
    /\ last.op = "received"
    /\ last' = Ev("isServerAppDescriptionValid", 0, NoEp, NULL, NoBatch,
                  isServerAppDescriptionValid(last.calls[1]), "none", <<>>, last.calls)
    /\ UNCHANGED <<sessionClientMap, clientCount, clientSubMap, pump, serializeMutex,
                   caller, recvQ, receivedMsgCb, browseVars>>

(* ------------------------------ initial state -------------------------- *)
NoSub == [valid |-> FALSE, subscriptionCount |-> 0, subscription_thread |-> 0,
          subscription_thread_running |-> FALSE, subscriptionList |-> <<>>]

NoPump == [pc |-> "none", client |-> NULL, freed |-> FALSE]

IdleCaller == [pc |-> "idle", client |-> NULL, thread |-> 0]

Init ==
    /\ sessionClientMap = NullMap
    /\ clientCount = 0
    /\ clientSubMap = [c \in Clients |-> NoSub]
    /\ pump = [p \in PumpIds |-> NoPump]
    /\ serializeMutex = {}
    /\ caller = [t \in Callers |-> IdleCaller]
    /\ recvQ = <<>>
    /\ receivedMsgCb = NULL
    /\ browseMsg = NoMsg
    /\ browseFrames = <<>>
    /\ browsePathList = <<>>
    /\ last = Ev("init", 0, NoEp, NULL, NoBatch, "void", "none", <<>>, <<>>)

\* one application thread and one client handle; the servers are named by
\* one URL each, and subscription requests go to the server "h1"
Heap == {1}
Urls == {e \in Endpoints : e.port = 4840 /\ e.path = ""}
ServerUrl == {e \in Urls : e.host = "h1"}

Next ==
    \/ \E t \in Callers, e \in Urls : connect_client(t, e, Heap)
    \/ \E t \in Callers, e \in Urls : disconnect_client(t, e)
    \/ \E t \in Callers, e \in ServerUrl, reqs \in Batches, m \in MsgIds : createSub(t, e, reqs, m)
    \/ \E t \in Callers, e \in ServerUrl, a \in Aliases : deleteSub(t, e, a)
    \/ \E t \in Callers : deleteSub_joined(t)
    \/ \E t \in Callers, e \in ServerUrl, a \in Aliases : modifySub(t, e, a)
    \/ \E t \in Callers, e \in ServerUrl, a \in Aliases : rePublish(t, e, a)
    \/ \E t \in Callers : acquireSubscriptionLockInternal(t)
    \/ \E t \in Callers : releaseSubscriptionLockInternal(t)
    \/ \E t \in Callers, c \in Heap : stopSubscriptionThread(t, c)
    \/ \E t \in Callers : stopSubscriptionThread_locked(t)
    \/ \E t \in Callers : stopSubscriptionThread_joined(t)
    \/ \E p \in PumpIds : pump_start(p)
    \/ \E p \in PumpIds : pump_while(p)
    \/ \E p \in PumpIds : pump_lock(p)
    \/ \E p \in PumpIds : pump_run(p)

Spec == Init /\ [][Next]_vars

\* any sequence of connect_client / disconnect_client calls, several servers
NextRegistry ==
    \/ \E t \in Callers, e \in Endpoints : connect_client(t, e, Clients)
    \/ \E t \in Callers, e \in Endpoints : disconnect_client(t, e)

SpecRegistry == Init /\ [][NextRegistry]_vars

\* URLs without a path are connected on the handles 1 and 2, URLs with a path
\* on the handle 3: the handle of a session tells how it was connected
PlainUrls == {e \in Endpoints : e.path = ""}
PathUrls == Endpoints \ PlainUrls
PlainHandles == {1, 2}
PathHandles == {3}

NextPaths ==
    \/ \E t \in Callers, e \in PlainUrls : connect_client(t, e, PlainHandles)
    \/ \E t \in Callers, e \in PathUrls : connect_client(t, e, PathHandles)
    \/ \E t \in Callers, e \in Endpoints : disconnect_client(t, e)

SpecPaths == Init /\ [][NextPaths]_vars

\* several sessions, one of them with a subscription whose pump thread fills
\* the receive queue
SingleRequests == {reqs \in Batches : Len(reqs) = 1}
\* two client handles, one for each server
TwoHandles == {1, 2}

NextTeardown ==
    \/ \E t \in Callers, e \in Urls : connect_client(t, e, TwoHandles)
    \/ \E t \in Callers, e \in Urls : disconnect_client(t, e)
    \/ \E t \in Callers, e \in ServerUrl, reqs \in SingleRequests, m \in MsgIds : createSub(t, e, reqs, m)
    \/ \E p \in PumpIds : pump_start(p)
    \/ \E p \in PumpIds : pump_while(p)
    \/ \E p \in PumpIds : pump_lock(p)
    \/ \E p \in PumpIds : pump_run(p)

SpecTeardown == Init /\ [][NextTeardown]_vars

\* one session with a subscription of two items, the pump thread that fills
\* the receive queue and the consumer that drains it; messages of the other
\* types reach onResponseMessage directly
TwoItems == {reqs \in Batches : Len(reqs) = 2 /\ reqs[1] # reqs[2]}
DirectMessages ==
    {[type |-> ty, message_id |-> m] : ty \in MessageTypes, m \in MsgIds} \cup {NullMsg}

NextDispatch ==
    \/ \E recvCallback \in RecvCallbacks : configure(recvCallback)
    \/ \E t \in Callers, e \in ServerUrl : connect_client(t, e, Heap)
    \/ \E t \in Callers, e \in ServerUrl, reqs \in TwoItems, m \in MsgIds : createSub(t, e, reqs, m)
    \/ \E p \in PumpIds : pump_start(p)
    \/ \E p \in PumpIds : pump_while(p)
    \/ \E p \in PumpIds : pump_lock(p)
    \/ \E p \in PumpIds : pump_runWith(p, ReportValues, MaxPending)
    \/ \E msg \in DirectMessages : onResponseMessage_call(msg)
    \/ dispatcher

SpecDispatch == Init /\ [][NextDispatch]_vars

\* browse requests one at a time against a server that answers any way it
\* can, with the consumer of the receive queue
NextBrowse ==
    \/ \E type \in {"SEND_REQUEST", "SEND_REQUESTS"}, ids \in StartLists,
          direction \in Directions, m \in MsgIds : browseNodes(type, ids, direction, m)
    \/ \E serviceResult \in {"GOOD", "BAD"}, resultsSize \in {0} \cup StartSizes :
          browse_call(serviceResult, resultsSize)
    \/ \E status \in ResultStatus, cpLength \in CpLengths, referencesSize \in ReferencesSizes :
          browse_result(status, cpLength, referencesSize)
    \/ \E ref \in References : browse_reference(ref)
    \/ browse_resultEnd
    \/ browse_return
    \/ browseNodes_return
    \/ dispatcher

SpecBrowse == Init /\ [][NextBrowse]_vars

\* browseNodes runs browse() on the thread of its caller, one step after the
\* other until it returns, and the consumer thread keeps taking messages
\* from the receive queue
BrowseStep ==
    \/ \E serviceResult \in {"GOOD", "BAD"}, resultsSize \in {0} \cup StartSizes :
          browse_call(serviceResult, resultsSize)
    \/ \E status \in ResultStatus, cpLength \in CpLengths, referencesSize \in ReferencesSizes :
          browse_result(status, cpLength, referencesSize)
    \/ \E ref \in References : browse_reference(ref)
    \/ browse_resultEnd
    \/ browse_return
    \/ browseNodes_return
FairBrowse == WF_vars(BrowseStep) /\ WF_vars(dispatcher)
SpecBrowseFair == Init /\ [][NextBrowse]_vars /\ FairBrowse
\* browse requests against a server whose answers pass every check, with a
\* client whose allocations can fail while a result is worked on
NextBrowseNomem ==
    \/ \E type \in {"SEND_REQUEST", "SEND_REQUESTS"}, ids \in StartLists, m \in MsgIds :
          browseNodes(type, ids, "DIRECTION_FORWARD", m)
    \/ \E resultsSize \in StartSizes : browse_call("GOOD", resultsSize)
    \/ \E referencesSize \in ReferencesSizes : browse_result("GOOD", 0, referencesSize)
    \/ browse_result_nomem
    \/ \E ref \in GoodReferences : browse_reference(ref)
    \/ \E ref \in GoodReferences : browse_reference_nomem(ref)
    \/ browse_resultEnd
    \/ browse_return
    \/ browseNodes_return
    \/ dispatcher

SpecBrowseNomem == Init /\ [][NextBrowseNomem]_vars
\* the subscriptions of one session are modified and republished against a
\* server that can fail any service call and any item of a call
ModifyAnswers ==
    {<<a1, a2, a3, a4>> :
        a1 \in {ServiceAnswer(s, <<>>) : s \in {"GOOD", "BADTIMEOUT"}},
        a2 \in {ServiceAnswer("GOOD", <<"GOOD">>),
                ServiceAnswer("GOOD", <<"BADMONITOREDITEMIDINVALID">>),
                ServiceAnswer("BADTIMEOUT", <<>>)},
        a3 \in {ServiceAnswer("GOOD", <<"GOOD">>),
                ServiceAnswer("GOOD", <<"BADMONITOREDITEMIDINVALID">>),
                ServiceAnswer("GOOD", <<>>),
                ServiceAnswer("BADTIMEOUT", <<>>)},
        a4 \in {ServiceAnswer("GOOD", <<"GOOD">>),
                ServiceAnswer("GOOD", <<"BADSUBSCRIPTIONIDINVALID">>),
                ServiceAnswer("GOOD", <<>>),
                ServiceAnswer("BADTIMEOUT", <<>>)}}

RepublishResults == {"GOOD", "BADMESSAGENOTAVAILABLE", "BADSUBSCRIPTIONIDINVALID", "BADTIMEOUT"}

NextModify ==
    \/ \E t \in Callers, e \in ServerUrl : connect_client(t, e, Heap)
    \/ \E t \in Callers, e \in ServerUrl, reqs \in Batches, m \in MsgIds : createSub(t, e, reqs, m)
    \/ \E t \in Callers, e \in ServerUrl, a \in Aliases, answers \in ModifyAnswers :
          modifySubWith(t, e, a, answers)
    \/ \E t \in Callers, e \in ServerUrl, a \in Aliases, serviceResult \in RepublishResults :
          rePublishWith(t, e, a, serviceResult)

SpecModify == Init /\ [][NextModify]_vars

\* reads and subscription requests of one caller, with and without a
\* session, against a server that can fail every call and every node
ReadStatuses == UNION {[1..n -> {"GOOD", "BADNODEIDUNKNOWN"}] : n \in 1..MaxBatch}

NextRead ==
    \/ \E recvCallback \in RecvCallbacks : configure(recvCallback)
    \/ \E t \in Callers, e \in ServerUrl : connect_client(t, e, Heap)
    \/ \E t \in Callers, e \in ServerUrl, m \in MsgIds, serviceResult \in {"GOOD", "BADTIMEOUT"},
          statuses \in ReadStatuses : readNodesFromServer(t, e, m, serviceResult, statuses)
    \/ \E t \in Callers, e \in ServerUrl, reqs \in TwoItems, m \in MsgIds : createSub(t, e, reqs, m)
    \/ \E t \in Callers, e \in ServerUrl, a \in Aliases, serviceResult \in RepublishResults :
          rePublishWith(t, e, a, serviceResult)
    \/ dispatcher

SpecRead == Init /\ [][NextRead]_vars

\* host names of one to four segments joined by dots, some with five, and
\* one whose first segment is 2^32
Segments ==
    {<<>>, <<"0">>, <<"1">>, <<"2", "5", "5">>, <<"2", "5", "6">>, <<"1", "a">>,
     <<"1", "2", "3", "4">>}
RECURSIVE Dotted(_)
Dotted(segments) ==
    IF Len(segments) = 1 THEN segments[1]
    ELSE segments[1] \o <<".">> \o Dotted(Tail(segments))
HostNames ==
    {Dotted(segments) : segments \in UNION {[1..k -> Segments] : k \in 1..4}}
        \cup {Dotted(segments) : segments \in [1..5 -> {<<"1">>, <<"2", "5", "5">>}]}
        \cup {<<"4", "2", "9", "4", "9", "6", "7", "2", "9", "6", ".", "1", ".", "1">>}
AppDescriptions ==
    {AppDescription(typeSupported, scheme, parse, hostName, matches) :
        typeSupported \in BOOLEAN, scheme \in {"urn:", "opc.tcp://"},
        parse \in {"GOOD", "BADTCPENDPOINTURLINVALID"}, hostName \in HostNames,
        matches \in BOOLEAN}

InitDiscovery ==
    /\ sessionClientMap = NullMap
    /\ clientCount = 0
    /\ clientSubMap = [c \in Clients |-> NoSub]
    /\ pump = [p \in PumpIds |-> NoPump]
    /\ serializeMutex = {}
    /\ caller = [t \in Callers |-> IdleCaller]
    /\ recvQ = <<>>
    /\ receivedMsgCb = NULL
    /\ browseMsg = NoMsg
    /\ browseFrames = <<>>
    /\ browsePathList = <<>>
    /\ \E regServer \in AppDescriptions : last = Received(regServer)

NextDiscovery ==
    \/ isIPv4AddressValid_call
    \/ isServerAppDescriptionValid_call

SpecDiscovery == InitDiscovery /\ [][NextDiscovery]_vars

\* one session whose subscriptions of one item are created and deleted,
\* with its pump thread; the threads that exist are scheduled fairly: a pump
\* thread that can take its next step takes it, and a caller whose
\* pthread_join can return does return.  The application is not obliged to
\* make any call
NextCreateDelete ==
    \/ \E t \in Callers, e \in ServerUrl : connect_client(t, e, Heap)
    \/ \E t \in Callers, e \in ServerUrl, reqs \in SingleRequests, m \in MsgIds :
          createSub(t, e, reqs, m)
    \/ \E t \in Callers, e \in ServerUrl, a \in Aliases : deleteSub(t, e, a)
    \/ \E t \in Callers : deleteSub_joined(t)
    \/ \E p \in PumpIds : pump_start(p)
    \/ \E p \in PumpIds : pump_while(p)
    \/ \E p \in PumpIds : pump_lock(p)
    \/ \E p \in PumpIds : pump_run(p)

FairThreads ==
    /\ \A p \in PumpIds :
          /\ WF_vars(pump_start(p)) /\ WF_vars(pump_while(p))
          /\ WF_vars(pump_lock(p)) /\ WF_vars(pump_run(p))
    /\ \A t \in Callers : WF_vars(deleteSub_joined(t))

SpecCreateDelete == Init /\ [][NextCreateDelete]_vars /\ FairThreads

\* one session and two application threads: thread 1 makes the calls of the
\* facade, thread 2 calls stopSubscriptionThread; two pump threads can exist
\* at the same time
FacadeThread == 1
StopThread == 2
PumpThreads == {1, 2}

InitThreads ==
    /\ sessionClientMap = NullMap
    /\ clientCount = 0
    /\ clientSubMap = [c \in Clients |-> NoSub]
    /\ pump = [p \in PumpThreads |-> NoPump]
    /\ serializeMutex = {}
    /\ caller = [t \in {FacadeThread, StopThread} |-> IdleCaller]
    /\ recvQ = <<>>
    /\ receivedMsgCb = NULL
    /\ browseMsg = NoMsg
    /\ browseFrames = <<>>
    /\ browsePathList = <<>>
    /\ last = Ev("init", 0, NoEp, NULL, NoBatch, "void", "none", <<>>, <<>>)

NextThreads ==
    \/ \E e \in ServerUrl : connect_client(FacadeThread, e, Heap)
    \/ \E e \in ServerUrl, reqs \in SingleRequests, m \in MsgIds :
          createSub(FacadeThread, e, reqs, m)
    \/ \E e \in ServerUrl, a \in Aliases : deleteSub(FacadeThread, e, a)
    \/ deleteSub_joined(FacadeThread)
    \/ \E c \in Heap : stopSubscriptionThread(StopThread, c)
    \/ stopSubscriptionThread_locked(StopThread)
    \/ stopSubscriptionThread_joined(StopThread)
    \/ \E p \in PumpThreads : pump_start(p)
    \/ \E p \in PumpThreads : pump_while(p)
    \/ \E p \in PumpThreads : pump_lock(p)
    \/ \E p \in PumpThreads : pump_run(p)

SpecThreads == InitThreads /\ [][NextThreads]_vars

(* ------------------------------- claims -------------------------------- *)
\* the registry holds an entry for the host:port of endpoint e
KeyPresent(e) ==
    \E i \in 1..Len(sessionClientMap.head) :
        /\ sessionClientMap.head[i].key.host = e.host
        /\ sessionClientMap.head[i].key.port = e.port

UniqueKeys ==
    \A i, j \in 1..Len(sessionClientMap.head) :
        i # j => \/ sessionClientMap.head[i].key.host # sessionClientMap.head[j].key.host
                 \/ sessionClientMap.head[i].key.port # sessionClientMap.head[j].key.port

\* C1: under any sequence of connect_client / disconnect_client calls the
\* registry holds at most one entry per host:port, and a connect_client for a
\* host:port that is present returns false and leaves the registry (entries,
\* their client handles) and the client count as they were.
C1_RegistryUniqueness ==
    /\ []UniqueKeys
    /\ [][(last'.op = "connect_client" /\ KeyPresent(last'.ep))
            => (last'.ret = "false" /\ UNCHANGED <<sessionClientMap, clientCount>>)]_vars

\* a connect_client was refused while two sessions were registered
C1_Witness ==
    /\ last.op = "connect_client" /\ last.ret = "false" /\ last.calls = <<>>
    /\ KeyPresent(last.ep)
    /\ Len(sessionClientMap.head) = 2

\* C2: a disconnect_client for an endpoint that has no entry in the registry
\* (the second of two calls, or the registry map does not exist) changes
\* neither the registry, the client count, the queue nor anything else, and
\* fires no status callback.
C2_IdempotentDisconnect ==
    [][(last'.op = "disconnect_client" /\ ~KeyPresent(last'.ep))
         => /\ UNCHANGED <<sessionClientMap, clientCount, recvQ, clientSubMap, pump,
                           serializeMutex, caller>>
            /\ last'.cb = <<>>
            /\ last'.calls = <<>>]_vars

\* a disconnect_client found no entry for its endpoint in a registry that holds
\* another session, while a message was waiting in the queue
C2_Witness ==
    /\ last.op = "disconnect_client" /\ last.eff = "none"
    /\ ~sessionClientMap.null
    /\ recvQ # <<>>

PumpsOf(client) == {p \in PumpIds : pump[p].pc \notin {"none", "done"} /\ pump[p].client = client}

\* C3: when disconnect_client has removed a session its pump thread has
\* ended, and no pump thread is inside a run cycle on a client handle that
\* disconnect_client has destroyed.
C3_DisconnectStopsPump ==
    /\ (last.op = "disconnect_client" /\ last.eff = "removed") => PumpsOf(last.client) = {}
    /\ \A p \in PumpIds : ~(pump[p].pc = "run" /\ pump[p].freed)

\* C4: when an Edge_Delete_Sub has returned after removing the last record of
\* the session's list, the pump thread of that session has ended.
C4_SubscriptionJoin ==
    (/\ last.op = "deleteSub"
     /\ last.eff \in {"removed", "joined"}
     /\ clientSubMap[last.client].subscriptionList = <<>>)
        => PumpsOf(last.client) = {}

\* C5: no state has a caller of stopSubscriptionThread waiting, with the
\* mutex held, for the end of a pump thread that waits for the mutex.
C5_StopNeverDeadlocks ==
    ~ \E t \in Callers, p \in PumpIds :
        /\ caller[t].pc = "stop_join"
        /\ caller[t].thread = p
        /\ <<"caller", t>> \in serializeMutex
        /\ pump[p].pc = "lock"

\* C6: at most one thread (a pump thread, a caller of
\* acquireSubscriptionLockInternal, a caller of stopSubscriptionThread) holds
\* the serialization mutex.
C6_Serialization == Cardinality(serializeMutex) <= 1

\* a pump thread waits for the mutex while a caller holds it
C6_Witness ==
    /\ \E t \in Callers : <<"caller", t>> \in serializeMutex
    /\ \E p \in PumpIds : pump[p].pc = "lock"

SubOps == {"createSub", "deleteSub", "deleteSub_join", "modifySub", "rePublish"}

\* C7: every service call issued through executeSub is made with the
\* serialization mutex held by the calling thread, and never while the pump
\* thread of the same client is inside its run cycle.
C7_SyncCallsSerialized ==
    (last.op \in SubOps /\ last.calls # <<>>)
        => /\ <<"caller", last.t>> \in serializeMutex
           /\ \A p \in PumpIds : ~(pump[p].client = last.client /\ pump[p].pc = "run")

\* C8: whenever an Edge_Create_Sub has just returned success, the session has
\* a running pump thread.
C8_PumpAfterCreate ==
    (last.op = "createSub" /\ last.ret = "GOOD") => PumpsOf(last.client) # {}

\* C9: an Edge_Create_Sub whose batch repeats a valueAlias, or names one that
\* is in the session's list, returns BADREQUESTCANCELLEDBYCLIENT without any
\* call to the server and leaves the list, the count and the pump as they were.
C9_CreatePreValidation ==
    [][(/\ last'.op = "createSub"
        /\ last'.client # NULL
        /\ (last'.batch.repeats \/ last'.batch.listed))
         => /\ last'.ret = "BADREQUESTCANCELLEDBYCLIENT"
            /\ last'.calls = <<>>
            /\ UNCHANGED <<clientSubMap, pump>>]_vars

\* a batch of three requests that repeats a valueAlias, none of them in the
\* list, was refused
C9_Witness ==
    /\ last.op = "createSub" /\ last.ret = "BADREQUESTCANCELLEDBYCLIENT"
    /\ last.client # NULL
    /\ last.batch.n = 3 /\ last.batch.repeats /\ ~last.batch.listed

\* C10: an Edge_Delete_Sub that has removed its record issued a
\* delete-subscription call only for a subscription id that no remaining
\* record of the list references.
C10_DeleteSubscriptionOnlyWhenUnreferenced ==
    (last.op \in {"deleteSub", "deleteSub_join"} /\ last.eff = "removed")
        => \A k \in 1..Len(last.calls) :
              last.calls[k].fn = "Subscriptions_deleteSingle"
                 => ~hasSubscriptionId(clientSubMap[last.client].subscriptionList,
                                       last.calls[k].subId)

\* C14: a disconnect_client that removes an entry sets the registry map to NULL
\* and empties the queues exactly when the client count has fallen to zero; when
\* another session stays connected the map keeps its other entries and the
\* queue keeps its messages.
C14_LastOutTeardown ==
    [][(last'.op = "disconnect_client" /\ last'.eff = "removed")
         => /\ clientCount' = clientCount - 1
            /\ IF clientCount' = 0
               THEN sessionClientMap'.null /\ recvQ' = <<>>
               ELSE /\ ~sessionClientMap'.null
                    /\ Len(sessionClientMap'.head) = Len(sessionClientMap.head) - 1
                    /\ Len(sessionClientMap'.head) = clientCount'
                    /\ recvQ' = recvQ]_vars

\* a session was removed while another one stays connected and a message waits
\* in the queue
C14_Witness ==
    /\ last.op = "disconnect_client" /\ last.eff = "removed"
    /\ clientCount = 1 /\ ~sessionClientMap.null
    /\ recvQ # <<>>

\* the endpoint URIs with the host and the port of e, whatever their path
SameHostPort(e) == {e2 \in Endpoints : e2.host = e.host /\ e2.port = e.port}

\* C15: two endpoint URIs with the same host and port and different paths
\* resolve to the same client handle; connect_client on one of them returns
\* false when a session exists for the other, and disconnect_client with
\* either removes that session.
C15_HostPortIdentity ==
    /\ [](\A e1 \in Endpoints : \A e2 \in SameHostPort(e1) :
             getSessionClient(e1) = getSessionClient(e2))
    /\ [][(/\ last'.op = "connect_client"
            /\ \E e2 \in SameHostPort(last'.ep) : getSessionClient(e2) # NULL)
             => /\ last'.ret = "false"
                /\ UNCHANGED <<sessionClientMap, clientCount>>]_vars
    /\ [][(/\ last'.op = "disconnect_client"
            /\ \E e2 \in SameHostPort(last'.ep) : getSessionClient(e2) # NULL)
             => /\ last'.eff = "removed"
                /\ \A e2 \in SameHostPort(last'.ep) :
                      /\ last'.client = getSessionClient(e2)
                      /\ getSessionClient(e2)' = NULL]_vars

\* a session connected through a URL without path was removed by a
\* disconnect_client called with a URL of the same host and port with a path
C15_Witness ==
    /\ last.op = "disconnect_client" /\ last.eff = "removed"
    /\ last.ep.path # ""
    /\ last.client \in PlainHandles

C18_NotificationOrder ==
    [][/\ (last'.op = "UA_Client_runAsync" /\ last'.cb # <<>>) =>
            \/ recvQ' = recvQ
            \/ /\ Len(recvQ') = Len(recvQ) + 1
               /\ SubSeq(recvQ', 1, Len(recvQ)) = recvQ
               /\ recvQ'[Len(recvQ')].type = "REPORT"
               /\ recvQ'[Len(recvQ')].valueAlias = last'.cb[1].valueAlias
               /\ recvQ'[Len(recvQ')].value = last'.cb[1].value
       /\ last'.op = "dispatcher" =>
            /\ recvQ # <<>>
            /\ recvQ' = Tail(recvQ)
            /\ (receivedMsgCb # NULL /\ Head(recvQ).type = "REPORT") =>
                   last'.cb = <<Callback("monitored_msg_cb", Head(recvQ))>>]_vars

\* a REPORT of an item is delivered while a later one of the same item, with
\* another value, waits in the queue
C18_Witness ==
    /\ last.op = "dispatcher"
    /\ last.cb # <<>>
    /\ last.cb[1].fn = "monitored_msg_cb"
    /\ recvQ # <<>>
    /\ Head(recvQ).valueAlias = last.cb[1].msg.valueAlias
    /\ Head(recvQ).value # last.cb[1].msg.value

\* C19: onResponseMessage calls exactly one application callback for a
\* message of type GENERAL_RESPONSE (resp_msg_cb), BROWSE_RESPONSE
\* (browse_msg_cb), REPORT (monitored_msg_cb) or ERROR (error_msg_cb), with
\* that message, and calls none for a message of another type, for a NULL
\* message, or while no receive callback is configured.
C19_DispatcherRouting ==
    [][last'.op \in {"onResponseMessage", "dispatcher"} =>
         LET msg == IF last'.op = "dispatcher" THEN Head(recvQ) ELSE last'.calls[1].msg IN
         IF receivedMsgCb = NULL \/ msg = NullMsg THEN last'.cb = <<>>
         ELSE CASE msg.type = "GENERAL_RESPONSE" -> last'.cb = <<Callback("resp_msg_cb", msg)>>
                [] msg.type = "BROWSE_RESPONSE" -> last'.cb = <<Callback("browse_msg_cb", msg)>>
                [] msg.type = "REPORT" -> last'.cb = <<Callback("monitored_msg_cb", msg)>>
                [] msg.type = "ERROR" -> last'.cb = <<Callback("error_msg_cb", msg)>>
                [] OTHER -> last'.cb = <<>>]_vars

\* an ERROR message has been handed to error_msg_cb
C19_Witness ==
    /\ last.op = "onResponseMessage"
    /\ last.cb # <<>>
    /\ last.cb[1].fn = "error_msg_cb"
    /\ last.cb[1].msg.type = "ERROR"

\* the activations that are expanding a node: it is pushed and not yet popped
Expanding(f) == f.pc \in {"refs", "recurse"}

\* the nodes being expanded, from the starting node of the request down
Ancestors ==
    LET fs == SelectSeq(browseFrames, Expanding) IN
    [k \in 1..Len(fs) |-> [edgeNodeId |-> fs[k].nodes[fs[k].i].nodeId,
                           browseName |-> fs[k].nodes[fs[k].i].browseName]]

\* the names of the entries of a browse path
NamesOf(list) == {list[k].browseName : k \in 1..Len(list)} \ {NoName}

\* "/" and the name, for the named entries of a browse path
RECURSIVE SlashJoined(_)
SlashJoined(list) ==
    IF list = <<>> THEN <<>>
    ELSE (IF list[1].browseName = NoName THEN <<>> ELSE <<"/", list[1].browseName>>)
            \o SlashJoined(Tail(list))

\* the round of the reference loop that is taken queues a BROWSE_RESPONSE
Reported == last'.op = "browse_reference" /\ last'.ret = "reported"

\* C11: no BROWSE_RESPONSE carries a browse name that is the name of one of
\* the nodes above it, from the starting node down to the node being
\* expanded; and a reference whose browse name is on the browse path gets no
\* response and no entry in the frontier, and no ERROR when it passes the
\* checks.
C11_CycleAvoidance ==
    [][last'.op = "browse_reference" =>
         LET ref == last'.calls[1].ref IN
         /\ Reported => recvQ'[Len(recvQ')].browseName \notin NamesOf(Ancestors)
         /\ ref.browseName \in NamesOf(browsePathList) =>
                /\ recvQ' = recvQ
                /\ browseFrames'[Len(browseFrames)].next = top.next
                /\ (ref \in GoodReferences /\ browseMsg.direction = "DIRECTION_FORWARD")
                      => last'.cb = <<>>]_vars

\* C12: while browse() is at work the browse path list holds the entries of
\* the nodes being expanded, from the starting node down, and nothing else:
\* the push of a result is undone before the next result of the same level
\* and before the activation returns.
C12_PathStack == browseFrames # <<>> => browsePathList = Ancestors

\* C13: the complete browse path of the BROWSE_RESPONSE for a reference is
\* "/" and the name for every named node from the starting node down to the
\* node being expanded, then "/" and the valueAlias of the reference.
C13_CompletePath ==
    [][Reported =>
         LET r == recvQ'[Len(recvQ')] IN
         r.value = SlashJoined(Ancestors) \o <<"/">> \o r.valueAlias]_vars

\* C20: when the service call of the outermost activation answers with a
\* service result that is not GOOD, the request has sent exactly one ERROR
\* and no BROWSE_RESPONSE when browseNodes returns, and no result was
\* processed.
C20_ServiceFailure ==
    [][(last'.op = "browseNodes_return" /\ top.serviceResult # "GOOD") =>
         /\ browseMsg.errors + Len(last'.cb) = 1
         /\ browseMsg.responses = 0
         /\ top.i = 0]_vars

\* C21: in the outermost activation, when the last result is reached and
\* every result of the response had the status BADNODEIDUNKNOWN, the request
\* has sent exactly one ERROR and it carries
\* STATUS_VIEW_NODEID_UNKNOWN_ALL_RESULTS; a bad result of a response whose
\* results are not all BADNODEIDUNKNOWN sends exactly one
\* STATUS_VIEW_RESULT_STATUS_CODE_BAD with the name of its status, and the
\* loop goes on to the next result.
C21_UnknownAggregation ==
    [][(last'.op = "browse_result" /\ last'.ret # "GOOD") =>
         LET n == Len(top.nodes)
             after == browseFrames'[Len(browseFrames)] IN
         /\ Len(last'.cb) = 1
         /\ after.pc \in {"result", "return"}
         /\ after.pc = "result" => after.i = top.i + 1
         /\ IF top.i = n /\ after.nodeIdUnknownCount = n
            THEN /\ last'.cb[1].result = "STATUS_VIEW_NODEID_UNKNOWN_ALL_RESULTS"
                 /\ Len(browseFrames) = 1 => browseMsg'.errors = 1
            ELSE after.nodeIdUnknownCount < top.i =>
                   /\ last'.cb[1].result = "STATUS_VIEW_RESULT_STATUS_CODE_BAD"
                   /\ last'.cb[1].value = last'.ret]_vars

EncodedAlias(nodeId, browseName, displayText) ==
    <<"{", nodeId.namespaceIndex, ";", getCharacterNodeIdType(nodeId.identifierType)>>
        \o (IF displayText = "v=1" THEN <<";", displayText>> ELSE <<>>)
        \o <<"}">> \o (IF browseName = NoName THEN <<>> ELSE <<browseName>>)

\* C27: the valueAlias of the BROWSE_RESPONSE for a reported reference is
\* "{ns;s}" and the browse name for a NodeId with a string, "{ns;i}" and the
\* browse name for a NodeId with a number, and ";v=N" stands inside the
\* braces when and only when the display text of the reference starts with
\* "v=", copied as it is.
C27_ValueAlias ==
    [][Reported =>
         LET r == recvQ'[Len(recvQ')]
             ref == last'.calls[1].ref IN
         r.valueAlias = EncodedAlias(ref.nodeId, r.browseName, ref.displayName)]_vars

\* C22: a reference that one of the checks of browse() refuses (direction,
\* browse name, node class, display name, NodeId, reference type id, type
\* definition) sends exactly one ERROR, with the NodeId of the node being
\* expanded; no BROWSE_RESPONSE is queued for it, it is not added to the
\* nodes of the next level, and the loop goes on with the next reference.
C22_PerItemError ==
    [][(last'.op = "browse_reference"
          /\ checkReference(browseMsg.message_id, browseMsg.direction,
                            last'.calls[1].ref, top.nodes[top.i].nodeId) # <<>>) =>
         LET after == browseFrames'[Len(browseFrames)] IN
         /\ Len(last'.cb) = 1
         /\ \A k \in 1..Len(last'.cb) :
               /\ last'.cb[k].type = "ERROR"
               /\ last'.cb[k].nodeId = top.nodes[top.i].nodeId
         /\ recvQ' = recvQ
         /\ after.next = top.next
         /\ after.pc = "refs" /\ after.j = top.j + 1]_vars

\* C23: an allocation or conversion failure while a result is worked on ends
\* the activation with an internal error and leaves the queued responses as
\* they are; an activation whose nested activation returned an internal
\* error ends itself with a status that is not STATUS_OK instead of going
\* on to its next result, and browseNodes gets a status that is not
\* STATUS_OK from the outermost activation.
C23_InternalFailureFatal ==
    [][/\ last'.op \in {"browse_result_nomem", "browse_reference_nomem"} =>
            /\ recvQ' = recvQ
            /\ browseFrames'[Len(browseFrames)].pc = "return"
            /\ browseFrames'[Len(browseFrames)].statusCode = "STATUS_INTERNAL_ERROR"
       /\ (last'.op = "browse_return" /\ top.statusCode = "STATUS_INTERNAL_ERROR") =>
            /\ recvQ' = recvQ
            /\ browseFrames'[Len(browseFrames')].pc = "return"
            /\ browseFrames'[Len(browseFrames')].statusCode # "STATUS_OK"
       /\ (last'.op = "browseNodes_return" /\ top.statusCode = "STATUS_INTERNAL_ERROR") =>
            last'.ret # "STATUS_OK"]_vars

\* a recorded service call was answered with a bad service result or a bad
\* item result, and the status of that answer
BadAnswer(call) == call.serviceResult # "GOOD" \/ FirstBad(call.results) # "GOOD"
AnswerStatus(call) ==
    IF call.serviceResult # "GOOD" THEN call.serviceResult ELSE FirstBad(call.results)

\* C29: Edge_Modify_Sub for an alias with a record makes its service calls in
\* the order ModifySubscription, ModifyMonitoredItems, SetMonitoringMode
\* (Reporting), SetPublishingMode, all for the subscription of a record of
\* the session; a call is made only after good answers to all calls before
\* it; when the last call made has a bad service or item result that status
\* is returned, and GOOD is returned only after four good answers. For an
\* alias without a record BADNOSUBSCRIPTION is returned and no call is made.
C29_ModifyOrder ==
    [][(last'.op = "modifySub" /\ last'.client # NULL) =>
         LET calls == last'.calls
             n == Len(calls)
             list == clientSubMap[last'.client].subscriptionList IN
         IF ~last'.batch.listed
         THEN last'.ret = "BADNOSUBSCRIPTION" /\ calls = <<>>
         ELSE /\ n \in 1..4
              /\ \A k \in 1..n :
                    /\ calls[k].fn = <<"Subscriptions_modify", "ModifyMonitoredItems",
                                       "SetMonitoringMode", "SetPublishingMode">>[k]
                    /\ calls[k].subId = calls[1].subId
                    /\ k < n => ~BadAnswer(calls[k])
              /\ \E i \in 1..Len(list) : list[i].subId = calls[1].subId
              /\ n >= 3 => calls[3].monitoringMode = "UA_MONITORINGMODE_REPORTING"
              /\ IF BadAnswer(calls[n]) THEN last'.ret = AnswerStatus(calls[n])
                 ELSE \/ n = 4 /\ last'.ret = "GOOD"
                      \/ n = 3 /\ calls[3].results = <<>> /\ last'.ret # "GOOD"]_vars

\* C30: Edge_Republish_Sub for an alias with a record makes one republish
\* call with the retransmit sequence number 2; it returns GOOD when the
\* service result is GOOD or BADMESSAGENOTAVAILABLE and the service result
\* itself for every other one; the registry, the subscription lists and
\* counts and the pump threads are as they were.
C30_Republish ==
    [][(last'.op = "rePublish" /\ last'.batch.listed) =>
         /\ Len(last'.calls) = 1
         /\ last'.calls[1].fn = "Republish"
         /\ last'.calls[1].retransmitSequenceNumber = 2
         /\ \E i \in 1..Len(clientSubMap[last'.client].subscriptionList) :
               clientSubMap[last'.client].subscriptionList[i].subId = last'.calls[1].subId
         /\ last'.ret = IF last'.calls[1].serviceResult \in {"GOOD", "BADMESSAGENOTAVAILABLE"}
                        THEN "GOOD" ELSE last'.calls[1].serviceResult
         /\ UNCHANGED <<sessionClientMap, clientCount, clientSubMap, pump>>]_vars

C30_Witness ==
    /\ last.op = "rePublish"
    /\ last.ret = "GOOD"
    /\ Len(last.calls) = 1
    /\ last.calls[1].serviceResult = "BADMESSAGENOTAVAILABLE"
    /\ clientSubMap[last.client].subscriptionCount > 0

\* the positions, from 0, of the nodes with a bad status and of those with a
\* good one, in the order of the request
BadPositions(statuses) ==
    SelectSeq([k \in 1..Len(statuses) |-> k - 1], LAMBDA q : statuses[q + 1] # "GOOD")
GoodPositions(statuses) ==
    SelectSeq([k \in 1..Len(statuses) |-> k - 1], LAMBDA q : statuses[q + 1] = "GOOD")
IsResponse(msg) == msg.type = "GENERAL_RESPONSE"
IsPositionError(msg) == msg.type = "ERROR" /\ msg.position >= 0
IsFatalError(msg) == msg.type = "ERROR" /\ msg.position < 0

ResultCode(ev) == IF ev.op = "readNode" THEN ev.ret ELSE executeSub_result(ev.ret)

\* C26: readNode and handleSubscription return STATUS_OK when there is a
\* session for the endpoint of the message and the command made its service
\* call, whatever the server answered; without a session they return an
\* error code, make no service call and send no message.
C26_DispatchOnlyResult ==
    [][last'.op \in {"readNode", "createSub", "rePublish"} =>
         IF last'.client # NULL
         THEN last'.calls # <<>> => ResultCode(last') = "STATUS_OK"
         ELSE /\ ResultCode(last') # "STATUS_OK"
              /\ last'.calls = <<>>
              /\ last'.cb = <<>>
              /\ recvQ' = recvQ]_vars

\* the grammar d.d.d.d: the pieces between the dots of a string, the value
\* of a piece of digits, and the strings of exactly four pieces of one to
\* three digits with a value of at most 255 and a length of 7 to 15
DotPositions(s) == {i \in 1..Len(s) : s[i] = "."}
PieceBounds(s) ==
    {<<a, b>> \in (0..Len(s)) \X (1..Len(s) + 1) :
        /\ a < b
        /\ a \in DotPositions(s) \cup {0}
        /\ b \in DotPositions(s) \cup {Len(s) + 1}
        /\ \A i \in DotPositions(s) : ~(a < i /\ i < b)}
RECURSIVE Decimal(_)
Decimal(digits) ==
    IF digits = <<>> THEN 0
    ELSE Decimal(SubSeq(digits, 1, Len(digits) - 1)) * 10 + DigitValue(digits[Len(digits)])
DottedQuad(s) ==
    /\ Len(s) >= 7 /\ Len(s) <= 15
    /\ Cardinality(DotPositions(s)) = 3
    /\ \A p \in PieceBounds(s) :
          LET piece == SubSeq(s, p[1] + 1, p[2] - 1) IN
          /\ Len(piece) \in 1..3
          /\ \A i \in 1..Len(piece) : IsDigit(piece[i])
          /\ Decimal(piece) <= 255

\* C28: isIPv4AddressValid accepts a string exactly when it is d.d.d.d with
\* exactly three dots, segments of one to three digits with a value of 0 to
\* 255 and a length of 7 to 15; isServerAppDescriptionValid refuses every
\* application URI that does not start with "urn:" and whose host starts
\* with "1" or "2" without being such a string.
C28_IPv4Validation ==
    /\ last.op = "isIPv4AddressValid" => (last.ret <=> DottedQuad(last.calls[1].hostName))
    /\ (/\ last.op = "isServerAppDescriptionValid"
        /\ last.calls[1].scheme # "urn:"
        /\ last.calls[1].hostName # <<>>
        /\ last.calls[1].hostName[1] \in {"1", "2"}
        /\ ~DottedQuad(last.calls[1].hostName)) => ~last.ret

C28_Witness ==
    /\ last.op = "isServerAppDescriptionValid"
    /\ ~last.ret
    /\ last.calls[1].applicationTypeSupported /\ last.calls[1].matches
    /\ last.calls[1].scheme = "opc.tcp://" /\ last.calls[1].parse = "GOOD"
    /\ last.calls[1].hostName = <<"1", ".", "2", "5", "6", ".", "0", ".", "1">>

\* the messages of the receive queue that carry a continuation point
IsContinuation(msg) == "cpLength" \in DOMAIN msg

\* C31: a result with a good status whose continuation point has a length
\* of 1000 or more, or a length above 0 and no references, sends exactly one
\* ERROR and its references are skipped: nothing is queued, no activation is
\* started and the loop is at the next result.  A result that is accepted
\* with a continuation point queues exactly one BROWSE_RESPONSE that carries
\* the continuation point and the path of the browse path list without its
\* leading "/": it is queued when every reference of the result
\* has had its round, and before the activation for the frontier of the
\* result has made its service call; no other step queues such a message.
C31_ContinuationPoint ==
    [][/\ (last'.op = "browse_result" /\ last'.ret = "GOOD") =>
            LET r == last'.calls[1]
                after == browseFrames'[Len(browseFrames')] IN
            (r.cpLength >= 1000 \/ (r.cpLength > 0 /\ r.referencesSize = 0)) =>
                /\ Len(last'.cb) = 1
                /\ last'.cb[1].type = "ERROR"
                /\ recvQ' = recvQ
                /\ Len(browseFrames') = Len(browseFrames)
                /\ after.pc \in {"result", "return"}
                /\ after.pc = "result" => after.i = top.i + 1
       /\ (last'.op = "browse_resultEnd" /\ top.cpLength > 0) =>
            /\ top.j = top.referencesSize
            /\ Len(recvQ') = Len(recvQ) + 1
            /\ SubSeq(recvQ', 1, Len(recvQ)) = recvQ
            /\ LET r == recvQ'[Len(recvQ')] IN
               /\ IsContinuation(r)
               /\ DOMAIN r = {"type", "message_id", "nodeId", "requestId", "cpLength",
                              "browsePrefix"}
               /\ r.type = "BROWSE_RESPONSE"
               /\ r.cpLength = top.cpLength
               /\ r.browsePrefix = IF SlashJoined(browsePathList) = <<>> THEN <<>>
                                   ELSE Tail(SlashJoined(browsePathList))
            /\ Len(browseFrames') > Len(browseFrames) =>
                  browseFrames'[Len(browseFrames')].pc = "call"
       /\ (Len(recvQ') > Len(recvQ) /\ IsContinuation(recvQ'[Len(recvQ')])) =>
            /\ last'.op = "browse_resultEnd"
            /\ top.pc = "refs" /\ top.cpLength \in 1..999]_vars

\* a continuation point was passed on with the prefix "A" after the
\* references of the result, and the activation for the frontier has not
\* made its service call yet
C31_Witness ==
    /\ last.op = "browse_resultEnd"
    /\ Len(browseFrames) = 2 /\ top.pc = "call"
    /\ recvQ # <<>>
    /\ IsContinuation(recvQ[Len(recvQ)])
    /\ recvQ[Len(recvQ)].browsePrefix = <<"A">>
    /\ browseFrames[1].referencesSize > 0

\* the index, from 0, of the starting node the outermost activation is at
StartIndex == browseFrames[1].i - 1

\* C32: every BROWSE_RESPONSE that is queued, for a reference or for a
\* continuation point and at any depth of the recursion, carries as request
\* id the index of the starting node of the request whose result the
\* outermost activation is working on; a reference of class Variable that is
\* reported adds nothing to the frontier, and a reported reference of
\* another class adds its NodeId with the request id of its response.
C32_RequestId ==
    [][/\ (Len(recvQ') > Len(recvQ)) =>
            /\ browseFrames # <<>>
            /\ recvQ'[Len(recvQ')].type = "BROWSE_RESPONSE"
            /\ StartIndex \in 0..(Len(browseFrames[1].nodes) - 1)
            /\ recvQ'[Len(recvQ')].requestId = StartIndex
       /\ last'.op = "browse_reference" =>
            LET ref == last'.calls[1].ref
                after == browseFrames'[Len(browseFrames')].next IN
            /\ ref.nodeClass = "VARIABLE" => after = top.next
            /\ (Reported /\ ref.nodeClass # "VARIABLE") =>
                  after = Append(top.next, Node(ref.nodeId, ref.browseName, StartIndex))
            /\ ~Reported => after = top.next]_vars

\* a Variable reached from the second starting node is reported one level
\* down with the request id 1
C32_Witness ==
    /\ last.op = "browse_reference" /\ last.ret = "reported"
    /\ last.calls[1].ref.nodeClass = "VARIABLE"
    /\ Len(browseFrames) = 2
    /\ recvQ # <<>>
    /\ recvQ[Len(recvQ)].requestId = 1
    /\ top.next = <<>>

SubscriptionIds(client) ==
    {clientSubMap[client].subscriptionList[i].subId :
        i \in 1..Len(clientSubMap[client].subscriptionList)}

\* no caller is inside a subscription operation
NoSubOperation == \A t \in Callers : caller[t].pc = "idle"

\* C34: the subscriptionCount of a session is never negative, and while no
\* subscription operation is in progress it is the number of distinct
\* subscription ids that the records of the session's list refer to.
C34_SubscriptionCount ==
    \A client \in Clients :
        /\ clientSubMap[client].subscriptionCount >= 0
        /\ NoSubOperation =>
              clientSubMap[client].subscriptionCount = Cardinality(SubscriptionIds(client))

\* C35: a createSub that returns a status other than GOOD has inserted no
\* record into the subscription list of the session and has left the
\* subscription count, the running flag and the pump threads as they were; a
\* createSub that returns GOOD has added one record for every request of
\* its batch to the list.
C35_CreateAllOrNothing ==
    [][(last'.op = "createSub" /\ last'.client # NULL) =>
         LET before == clientSubMap[last'.client]
             after == clientSubMap'[last'.client] IN
         /\ last'.ret # "GOOD" =>
               /\ after.subscriptionList = before.subscriptionList
               /\ after.subscriptionCount = before.subscriptionCount
               /\ after.subscription_thread_running = before.subscription_thread_running
               /\ pump' = pump
         /\ last'.ret = "GOOD" =>
               Len(after.subscriptionList) = Len(before.subscriptionList) + last'.batch.n]_vars

\* C36: under fair scheduling of the threads, an Edge_Delete_Sub that has
\* removed the last subscription of its session and waits in pthread_join
\* for the pump thread eventually returns.
C36_DeleteTerminates ==
    \A t \in Callers : (caller[t].pc = "deleteSub_join") ~> (caller[t].pc = "idle")

\* C37: when stopSubscriptionThread has returned for a session, the session
\* has no pump thread that is running or is still to start: every pump
\* thread that createSub has spawned for it has ended.
C37_StopIsFinal ==
    (last.op = "stopSubscriptionThread" /\ last.ret = "void")
        => PumpsOf(last.client) = {}

\* the pump threads of a session that were created and have not ended
LivePumps(client) ==
    {p \in DOMAIN pump : pump[p].pc \notin {"none", "done"} /\ pump[p].client = client}

\* C38: a session has at most one pump thread that has not ended: no pump
\* thread is created for a session while an earlier pump thread of that
\* session is still there.
C38_OnePumpPerSession == \A client \in Clients : Cardinality(LivePumps(client)) <= 1

\* the names of the nodes being expanded below the starting node, one for
\* every activation of browse() for a frontier
ChainNames == [k \in 1..Len(Ancestors) - 1 |-> Ancestors[k + 1].browseName]
\* the most activations of browse() at a time the claim allows: one for
\* every browse name the server uses, and one
DepthBound == Cardinality(Names) + 1

\* C39: browse terminates for every reference graph the server returns,
\* with cycles and with results of a bad status: every node that is being
\* expanded is on the browse path list, the nodes expanded below the starting
\* node have names, no two of them the same, there are never more
\* activations of browse() than distinct browse names plus one, and every
\* browse request that was started returns to browseNodes' caller.
C39_BrowseTerminates ==
    /\ [](/\ Len(browseFrames) <= DepthBound
          /\ NamesOf(Ancestors) \subseteq NamesOf(browsePathList)
          /\ \A k \in 1..Len(ChainNames) : ChainNames[k] \in Names
          /\ \A k, l \in 1..Len(ChainNames) : ChainNames[k] = ChainNames[l] => k = l)
    /\ (browseMsg # NoMsg) ~> (browseMsg = NoMsg)
\* the deepest activation meets a reference back to a node being expanded,
\* in a request one of whose results was skipped and left its node on the
\* browse path list
C39_Witness ==
    /\ Len(browseFrames) = DepthBound
    /\ last.op = "browse_reference"
    /\ last.ret = "-"
    /\ last.cb = <<>>
    /\ last.calls[1].ref.browseName \in NamesOf(Ancestors)
    /\ browseMsg.errors > 0
    /\ Len(browsePathList) > Len(Ancestors)

====
